---------------------------- MODULE Spec2Model ----------------------------
(***************************************************************************)
(* A model of langgraph-rust: the graph builder and compile_internal       *)
(* (graph/state_graph.rs), the execution engine run_loop_inner with        *)
(* invoke and stream (graph/compiled.rs), and the ReAct runner and nodes   *)
(* (react/runner.rs, react/think_node.rs, react/act_node.rs).              *)
(***************************************************************************)
EXTENDS Integers, Sequences, FiniteSets, TLC

(***************************************************************************)
(* Bounds of the model.                                                    *)
(***************************************************************************)
\* the longest edge list a builder is given
MaxEdges == 3

\* the most node executions of one run that are followed
MaxSteps == 3

\* the slots of the event channel as modelled (mpsc::channel(128) in the source)
ChanCap == 2

\* the most node executions of one ReAct run that are followed
MaxCalls == 6

\* the most tool calls one LLM response asks for
MaxToolCalls == 2

\* the Custom events the tools of one streamed run offer at most
MaxCustom == 1

(***************************************************************************)
(* graph/state_graph.rs: sentinels, the builder, compile_internal.         *)
(***************************************************************************)
START == "__start__"

END == "__end__"

\* the ids a builder registers nodes under
BuilderIds == {"a", "b"}

\* what add_edge accepts as from_id / to_id: any string, the sentinels included
EdgeEnds == BuilderIds \cup {START, END}

Range(s) == {s[i] : i \in 1..Len(s)}

\* variant: no list is found to repeat an id
HasDuplicates_Never(s) == FALSE

\* Vec<T> -> HashSet<T>, compared by len(): true when the Vec repeats a value
HasDuplicates(s) == Cardinality(Range(s)) # Len(s)

\* .map over a Vec
MapSeq(s, Op(_)) == [i \in 1..Len(s) |-> Op(s[i])]

EdgeFrom(e) == e[1]

EdgeTo(e) == e[2]

CompileOk(ns, order, cp, mw) ==
    [tag |-> "Ok", nodes |-> ns, edge_order |-> order, checkpointer |-> cp, middleware |-> mw]

NodeNotFound(id) == [tag |-> "Err", err |-> "NodeNotFound", arg |-> id]

MissingStart == [tag |-> "Err", err |-> "MissingStart", arg |-> ""]

MissingEnd == [tag |-> "Err", err |-> "MissingEnd", arg |-> ""]

InvalidChain(msg) == [tag |-> "Err", err |-> "InvalidChain", arg |-> msg]

NotCompiled == [tag |-> "NotCompiled"]

\* the first loop of compile_internal: the edge's from is examined before its to
BadFrom(ns, e) == EdgeFrom(e) # START /\ EdgeFrom(e) \notin ns

BadTo(ns, e) == EdgeTo(e) # END /\ EdgeTo(e) \notin ns

BadEdges(ns, es) == {i \in 1..Len(es) : BadFrom(ns, es[i]) \/ BadTo(ns, es[i])}

FirstBadEdge(ns, es) == CHOOSE i \in BadEdges(ns, es) : \A j \in BadEdges(ns, es) : i <= j

\* variant: the edge's to is examined before its from
UnknownNode_ToFirst(ns, es) ==
    LET e == es[FirstBadEdge(ns, es)]
    IN  IF BadTo(ns, e) THEN EdgeTo(e) ELSE EdgeFrom(e)

UnknownNode(ns, es) ==
    LET e == es[FirstBadEdge(ns, es)]
    IN  IF BadFrom(ns, e) THEN EdgeFrom(e) ELSE EdgeTo(e)

\* variant: the targets of all edges, whatever their from
StartEdges_AnyFrom(es) == MapSeq(es, EdgeTo)

\* targets of the edges leaving START, in insertion order
StartEdges(es) == MapSeq(SelectSeq(es, LAMBDA e : EdgeFrom(e) = START), EdgeTo)

\* variant: the targets, not the sources, of the edges entering END
EndEdges_Targets(es) == MapSeq(SelectSeq(es, LAMBDA e : EdgeTo(e) = END), EdgeTo)

\* sources of the edges entering END, in insertion order
EndEdges(es) == MapSeq(SelectSeq(es, LAMBDA e : EdgeTo(e) = END), EdgeFrom)

Froms(es) == MapSeq(SelectSeq(es, LAMBDA e : EdgeFrom(e) # START), EdgeFrom)

\* variant: the target of the edge from START is left out of the targets
Tos_SkipsStart(es) ==
    MapSeq(SelectSeq(es, LAMBDA e : EdgeTo(e) # END /\ EdgeFrom(e) # START), EdgeTo)

Tos(es) == MapSeq(SelectSeq(es, LAMBDA e : EdgeTo(e) # END), EdgeTo)

\* collect() into a HashMap: a later edge with the same from overwrites an earlier
LastEdgeFrom(es, f) ==
    CHOOSE i \in 1..Len(es) :
        /\ EdgeFrom(es[i]) = f
        /\ \A j \in 1..Len(es) : EdgeFrom(es[j]) = f => j <= i

NextMap(es) ==
    [f \in {EdgeFrom(es[i]) : i \in {j \in 1..Len(es) : EdgeFrom(es[j]) # START}}
        |-> EdgeTo(es[LastEdgeFrom(es, f)])]

\* the walk of compile_internal from the head: Ok(order) or the InvalidChain error
RECURSIVE Walk(_, _, _, _, _)
Walk(next_map, current, visited, edge_order, expected_last) ==
    IF current \notin DOMAIN next_map
    THEN [tag |-> "Ok", edge_order |-> edge_order]
    ELSE LET next == next_map[current]
         IN  IF next = END
             THEN IF current # expected_last
                  THEN InvalidChain("chain tail does not match the single edge to END")
                  ELSE [tag |-> "Ok", edge_order |-> edge_order]
             ELSE IF next \in visited
                  THEN InvalidChain("cycle detected")
                  ELSE Walk(next_map, next, visited \cup {next},
                            Append(edge_order, next), expected_last)

CompileInternal(ns, es, checkpointer, middleware) ==
    IF BadEdges(ns, es) # {} THEN NodeNotFound(UnknownNode(ns, es))
    ELSE IF Len(StartEdges(es)) = 0 THEN MissingStart
    ELSE IF Len(StartEdges(es)) > 1
         THEN InvalidChain("multiple edges from START (branch)")
    ELSE IF Len(EndEdges(es)) # 1 THEN MissingEnd
    ELSE IF HasDuplicates(Froms(es)) THEN InvalidChain("duplicate from (branch)")
    ELSE IF HasDuplicates(Tos(es)) THEN InvalidChain("duplicate to (merge or branch)")
    ELSE LET first == StartEdges(es)[1]
             w == Walk(NextMap(es), first, {first}, <<first>>, EndEdges(es)[1])
         IN  IF w.tag = "Ok"
             THEN CompileOk(ns, w.edge_order, checkpointer, middleware)
             ELSE w

VARIABLES
    nodes,        \* StateGraph.nodes: the registered node ids
    edges,        \* StateGraph.edges: (from, to) in insertion order
    middleware,   \* StateGraph.middleware: "none" or the middleware with_middleware attached
    compiled,     \* the result of compile(): NotCompiled, an error, or the compiled graph
    config,       \* Option<RunnableConfig>: "None", "NoThread" (thread_id None), "Thread"
    run,          \* the call being made: "none", "invoke" or "stream"
    pc,           \* where the run is: idle, loop, ret, values, updates, next, exit, done
    current_id,   \* run_loop_inner's current_id
    state,        \* run_loop_inner's state
    ret,          \* what the node call returned: Ok((new_state, next)) or Err
    stream_mode,  \* the HashSet<StreamMode> given to stream()
    custom_offered, \* how many Custom events the run's tools have offered with try_send
    chan,         \* the events in the mpsc channel
    tx_open,      \* the task still holds the channel's Sender
    received,     \* the events the consumer has taken from the stream
    closed,       \* the consumer has seen the end of the stream, or has dropped it
    result,       \* per call, what it produced (for stream: run_loop_inner's discarded result)
    executed,     \* per call, the node ids whose run was called, in order
    around_runs,  \* every NodeMiddleware::around_run call: which call, node id, state given
    puts,         \* every Checkpointer::put call made: which call, which state, when
    saved,        \* the checkpoints stored for the thread, oldest first
    behav,        \* what each node has answered on each input state (nodes are deterministic)
    handle_tool_errors, \* ActNode.handle_tool_errors: one of HandleToolErrors
    tool_log,     \* per Act call, the tool calls sent to the ToolSource and how each ended
    final_state,  \* stream_with_callback's final_state: Option<ReActState>
    runner_result, \* what the ReactRunner call returned
    call_context, \* the ToolSource's stored context: Option<ToolCallContext>
    enable_loop,  \* ObserveNode.enable_loop: fixed when the graph is assembled
    act_tasks,    \* per concurrent run of the graph, how far its ActNode::run has come
    llm_log,      \* per Think call, its state, the LLM's answer and the chunks it sent
    gets,         \* every Checkpointer::get_tuple call made and how it ended
    earlier       \* what the runner's earlier call returned and the puts it made

builderVars == <<nodes, edges, middleware, compiled>>

callVars == <<config, run, pc, current_id, state, ret, result, executed, around_runs, behav>>

streamVars == <<stream_mode, custom_offered, chan, tx_open, received, closed>>

cpVars == <<puts, saved>>

reactVars ==
    <<handle_tool_errors, enable_loop, act_tasks, tool_log, final_state, runner_result, call_context, llm_log, gets,
      earlier>>

vars == <<builderVars, callVars, streamVars, cpVars, reactVars>>

NoResult == [tag |-> "None"]

\* the runs that may be in flight on one compiled graph at the same time
Tasks == {"run1", "run2"}

\* no concurrent run has reached its Act node
NoTasks == [t \in Tasks |-> [pc |-> "idle"]]

\* the ReAct runner is not in use: ActNode::new's default policy, no call made
ReactIdle ==
    /\ handle_tool_errors = "Never"
    /\ tool_log = <<>>
    /\ final_state = NoResult
    /\ runner_result = NoResult
    /\ call_context = NoResult
    /\ enable_loop = TRUE
    /\ act_tasks = NoTasks
    /\ llm_log = <<>>
    /\ gets = <<>>
    /\ earlier = NoResult

\* no call has been made
EngineIdle ==
    /\ ReactIdle
    /\ config = "None"
    /\ run = "none"
    /\ pc = "idle"
    /\ current_id = ""
    /\ state = <<>>
    /\ ret = NoResult
    /\ stream_mode = {}
    /\ custom_offered = 0
    /\ chan = <<>>
    /\ tx_open = FALSE
    /\ received = <<>>
    /\ closed = FALSE
    /\ result = [invoke |-> NoResult, stream |-> NoResult]
    /\ executed = [invoke |-> <<>>, stream |-> <<>>]
    /\ around_runs = <<>>
    /\ puts = <<>>
    /\ saved = <<>>
    /\ behav = <<>>

(***************************************************************************)
(* The builder: add_node, add_edge, compile (which consumes the builder).  *)
(***************************************************************************)
InitBuilder ==
    /\ nodes = {}
    /\ middleware = "none"
    /\ edges = <<>>
    /\ compiled = NotCompiled
    /\ EngineIdle

add_node(id) ==
    /\ compiled = NotCompiled
    /\ id \notin nodes
    /\ nodes' = nodes \cup {id}
    /\ UNCHANGED <<edges, middleware, compiled, callVars, streamVars, cpVars, reactVars>>

add_edge(from_id, to_id) ==
    /\ compiled = NotCompiled
    /\ Len(edges) < MaxEdges
    /\ edges' = Append(edges, <<from_id, to_id>>)
    /\ UNCHANGED <<nodes, middleware, compiled, callVars, streamVars, cpVars, reactVars>>

compile ==
    /\ compiled = NotCompiled
    /\ compiled' = CompileInternal(nodes, edges, "none", middleware)
    /\ UNCHANGED <<nodes, edges, middleware, callVars, streamVars, cpVars, reactVars>>

NextBuilder ==
    \/ \E id \in BuilderIds : add_node(id)
    \/ \E f \in EdgeEnds, t \in EdgeEnds : add_edge(f, t)
    \/ compile

SpecCompile == InitBuilder /\ [][NextBuilder]_vars

(***************************************************************************)
(* Properties of compile().                                                *)
(***************************************************************************)
\* the sequences over ns that repeat no node, of length lo..|ns|
Orders(ns, lo) ==
    {s \in UNION {[1..k -> ns] : k \in lo..Cardinality(ns)} : ~HasDuplicates(s)}

\* the edges of the chain START -> order[1] -> ... -> order[k] -> END
ChainEdges(order) ==
    IF Len(order) = 0 THEN {<<START, END>>}
    ELSE {<<START, order[1]>>, <<order[Len(order)], END>>}
         \cup {<<order[i], order[i + 1]>> : i \in 1..(Len(order) - 1)}

\* es holds exactly the edges of the chain through order, each once
IsChainOf(es, order) == Range(es) = ChainEdges(order) /\ Len(es) = Len(order) + 1

\* the non-sentinel ids that appear in some edge
EdgeNodes(es) == (Range(Froms(es)) \cup Range(Tos(es))) \ {START, END}

\* the conditions C2 puts on the builder
C2Pre(ns, es) ==
    /\ BadEdges(ns, es) = {}
    /\ Len(StartEdges(es)) = 1
    /\ Len(EndEdges(es)) = 1
    /\ ~HasDuplicates(Froms(es))
    /\ ~HasDuplicates(Tos(es))

\* order holds every node of the edges exactly once, head to tail along the edges
VisitsEveryNode(es, order) ==
    /\ ~HasDuplicates(order)
    /\ Range(order) = EdgeNodes(es)
    /\ Len(order) >= 1
    /\ order[1] = StartEdges(es)[1]
    /\ order[Len(order)] = EndEdges(es)[1]
    /\ \A i \in 1..(Len(order) - 1) : <<order[i], order[i + 1]>> \in Range(es)

\* C2 as stated: every builder with registered endpoints, one edge from START,
\* one edge into END and no repeated from or to compiles to an execution order
\* that holds every node of its edges exactly once, head to tail.
C2_AsStated ==
    (compiled # NotCompiled /\ C2Pre(nodes, edges))
        => (compiled.tag = "Ok" /\ VisitsEveryNode(edges, compiled.edge_order))

\* C2 (amended): when the edges are, in some insertion order, exactly those of one
\* chain START -> n1 -> ... -> nk -> END over k >= 1 distinct registered nodes,
\* compile() returns Ok and the execution order is n1..nk: every node of the
\* edges exactly once, head to tail.
C2_ChainCompiles ==
    \A order \in Orders(nodes, 1) :
        (compiled # NotCompiled /\ IsChainOf(edges, order))
            => /\ compiled = CompileOk(nodes, order, "none", "none")
               /\ VisitsEveryNode(edges, compiled.edge_order)

\* a two-node chain whose edges were added tail first has been compiled
C2_Witness ==
    /\ compiled # NotCompiled
    /\ \E order \in Orders(nodes, 2) : IsChainOf(edges, order)
    /\ EdgeTo(edges[1]) = END

\* C3: compile() returns Ok only when the added edges form exactly one linear
\* chain from START to END (every edge on the walk from the head, the walk
\* ending with the edge into END); disconnected or cyclic edge lists are
\* rejected.
C3_OkOnlyForChain ==
    compiled.tag = "Ok" => \E order \in Orders(nodes, 0) : IsChainOf(edges, order)

(***************************************************************************)
(* graph/compiled.rs: run_loop_inner, invoke, stream.                      *)
(* The state S of the abstract graphs is the sequence of the node ids that *)
(* have transformed it, so a node's output state determines its input.     *)
(***************************************************************************)
\* the node ids of the abstract graphs, in chain order
RunIds == <<"a", "b", "c">>

\* the ids a node may name in Next::Node(id): registered nodes, the exit sentinel,
\* and an id that was never registered
JumpTargets == Range(RunIds) \cup {END, "zz"}

NextContinue == [t |-> "Continue"]

NextEnd == [t |-> "End"]

NextNode(id) == [t |-> "Node", id |-> id]

NextValues == {NextContinue, NextEnd} \cup {NextNode(id) : id \in JumpTargets}

\* Result<(S, Next), AgentError> of Node::run
NodeOk(s, next) == [tag |-> "Ok", state |-> s, next |-> next]

ExecutionFailed(msg) == [tag |-> "Err", msg |-> msg]

\* Result<S, AgentError> of invoke, Result<(), AgentError> of run_loop_inner
RunOk(s) == [tag |-> "Ok", state |-> s]

\* a panic (.expect on a missing node or position) unwinds the call
Panicked == [tag |-> "Panic"]

ValuesEvent(s) == [type |-> "Values", state |-> s]

UpdatesEvent(id, s) == [type |-> "Updates", node_id |-> id, state |-> s]

StreamModes == {"Values", "Updates", "Messages", "Custom"}

\* the mode sets stream() is called with
ModeSets ==
    {{"Values"}, {"Updates"}, {"Messages", "Custom"}, StreamModes}

\* edge_order.iter().position(|x| x == id): 0 stands for None
Position(order, id) ==
    IF \E i \in 1..Len(order) : order[i] = id
    THEN CHOOSE i \in 1..Len(order) : order[i] = id /\ \A j \in 1..(i - 1) : order[j] # id
    ELSE 0

\* variant: the thread id of the config is not looked at
ShouldPut_AnyConfig(c, cfg) == c.checkpointer # "none"

\* if let (Some(cp), Some(cfg)) = (&self.checkpointer, config) { if cfg.thread_id.is_some()
ShouldPut(c, cfg) == c.checkpointer # "none" /\ cfg = "Thread"

\* variant: Node(id) is treated as Continue
DispatchNext_WrapsAround(c, cur, next) ==
    IF next.t = "End" THEN [op |-> "return"]
    ELSE IF next.t = "Node" THEN [op |-> "goto", id |-> next.id]
    ELSE LET pos == Position(c.edge_order, cur)
         IN  IF pos = 0 THEN [op |-> "panic"]
             ELSE [op |-> "goto", id |-> c.edge_order[(pos % Len(c.edge_order)) + 1]]

DispatchNext_JumpIgnored(c, cur, next) ==
    IF next.t = "End" THEN [op |-> "return"]
    ELSE LET pos == Position(c.edge_order, cur)
         IN  IF pos = 0 THEN [op |-> "panic"]
             ELSE IF pos + 1 > Len(c.edge_order) THEN [op |-> "return"]
             ELSE [op |-> "goto", id |-> c.edge_order[pos + 1]]

\* match next { End / Node(id) / Continue }: return, go to a node, or panic
DispatchNext(c, cur, next) ==
    IF next.t = "End" THEN [op |-> "return"]
    ELSE IF next.t = "Node" THEN [op |-> "goto", id |-> next.id]
    ELSE LET pos == Position(c.edge_order, cur)
         IN  IF pos = 0 THEN [op |-> "panic"]
             ELSE IF pos + 1 > Len(c.edge_order) THEN [op |-> "return"]
             ELSE [op |-> "goto", id |-> c.edge_order[pos + 1]]

\* variant: Updates is sent first, and Values not at all when both are requested
AfterStatePc_UpdatesFirst(r, mode) ==
    IF r = "stream" /\ "Updates" \in mode THEN "updates"
    ELSE IF r = "stream" /\ "Values" \in mode THEN "values"
    ELSE "next"

\* the first event to send once the node's state is stored: none without a RunContext
AfterStatePc(r, mode) ==
    IF r = "stream" /\ "Values" \in mode THEN "values"
    ELSE IF r = "stream" /\ "Updates" \in mode THEN "updates"
    ELSE "next"

AfterValuesPc(mode) == IF "Updates" \in mode THEN "updates" ELSE "next"

\* variant: Values carries the state the node was given
ValuesPayload_PreStep(s) == SubSeq(s, 1, Len(s) - 1)

\* the state carried by the event sent at pc "values"
ValuesPayload(s) == s

\* the node id carried by the event sent at pc "updates"
UpdatesNode(cur) == cur

\* run_loop_inner returns r to invoke (which returns) or to the spawned task (which ends)
Return(r) ==
    /\ result' = [result EXCEPT ![run] = r]
    /\ pc' = IF run = "invoke" THEN "done" ELSE "exit"

\* variant: the task returns without the terminal put
PutCheckpoint_Skipped == UNCHANGED cpVars

\* Checkpointer::put(cfg, Checkpoint::from_state(state)), its result ignored
PutCheckpoint ==
    IF ShouldPut(compiled, config)
    THEN \E ok \in BOOLEAN :
            /\ puts' = Append(puts, [run |-> run, state |-> state,
                                     nexec |-> Len(executed[run]), ok |-> ok])
            /\ saved' = IF ok THEN Append(saved, state) ELSE saved
    ELSE UNCHANGED cpVars

\* the first node of the run on the caller's state, or the return for an empty graph
Start(r, initial_state, empty_result) ==
    /\ compiled.tag = "Ok"
    /\ run' = r
    /\ state' = initial_state
    /\ ret' = NoResult
    /\ IF Len(compiled.edge_order) = 0
       THEN /\ result' = [result EXCEPT ![r] = empty_result]
            /\ pc' = IF r = "invoke" THEN "done" ELSE "exit"
            /\ UNCHANGED current_id
       ELSE /\ current_id' = compiled.edge_order[1]
            /\ pc' = "loop"
            /\ UNCHANGED result

\* variant: an empty graph is a run of no node, which returns the state it was given
invoke_EmptyReturnsOk ==
    /\ run = "none"
    /\ Start("invoke", <<>>, RunOk(<<>>))
    /\ UNCHANGED <<builderVars, reactVars, config, around_runs, executed, behav, streamVars, cpVars>>

invoke ==
    /\ run = "none"
    /\ Start("invoke", <<>>, ExecutionFailed("empty graph"))
    /\ UNCHANGED <<builderVars, reactVars, config, around_runs, executed, behav, streamVars, cpVars>>

\* stream(): the channel is made and the task spawned; the caller made invoke() before
stream(mode) ==
    /\ run = "invoke"
    /\ pc = "done"
    /\ Start("stream", <<>>, NoResult)
    /\ stream_mode' = mode
    /\ chan' = <<>>
    /\ tx_open' = TRUE
    /\ UNCHANGED <<builderVars, reactVars, config, around_runs, executed, behav, custom_offered,
                   received, closed, cpVars>>

\* variant: an id that is not in the node table ends the run as Next::End does
node_missing_EndsRun ==
    /\ pc = "loop"
    /\ current_id \notin compiled.nodes
    /\ PutCheckpoint
    /\ Return(RunOk(state))
    /\ UNCHANGED <<builderVars, reactVars, config, around_runs, run, current_id, state, ret,
                   executed, behav, streamVars>>

\* self.nodes.get(current_id).expect("compiled graph has all nodes")
node_missing ==
    /\ pc = "loop"
    /\ current_id \notin compiled.nodes
    /\ Return(Panicked)
    /\ UNCHANGED <<builderVars, reactVars, config, around_runs, run, current_id, state, ret, executed, behav,
                   streamVars, cpVars>>

\* what a node may answer on input s
Outcomes(id, s) ==
    {NodeOk(Append(s, id), next) : next \in NextValues}
        \cup {ExecutionFailed(<<"node failed", id>>)}

\* with a middleware the node call is made by its around_run(node_id, state, inner),
\* which runs inner once on the state it was given and returns inner's result
AroundRun(id) ==
    around_runs' = IF compiled.middleware # "none"
                   THEN Append(around_runs, [run |-> run, node_id |-> id, state |-> state,
                                             middleware |-> compiled.middleware])
                   ELSE around_runs

\* variant: an error of the node is logged and replaced by the end of the run
AroundRunResult_ErrorSwallowed(m, s, inner_result) ==
    IF inner_result.tag = "Err" THEN NodeOk(s, NextEnd) ELSE inner_result

\* LoggingMiddleware::around_run: `let result = inner(state).await; ...; result`
AroundRunResult(m, s, inner_result) == inner_result

\* the node call: node.run(state) or node.run_with_context(state, ctx), made
\* directly or as the inner of the middleware's around_run
CallNode(out) ==
    /\ pc = "loop"
    /\ current_id \in compiled.nodes
    /\ Len(executed[run]) < MaxSteps
    /\ AroundRun(current_id)
    /\ ret' = IF compiled.middleware = "none" THEN out
              ELSE AroundRunResult(compiled.middleware, state, out)
    /\ executed' = [executed EXCEPT ![run] = Append(@, current_id)]
    /\ pc' = "ret"

\* an abstract node: any answer, but the same answer to the same input state
node_run ==
    \E out \in Outcomes(current_id, state) :
        LET key == <<current_id, state>>
        IN  /\ key \in DOMAIN behav => out = behav[key]
            /\ behav' = [k \in DOMAIN behav \cup {key} |-> IF k = key THEN out ELSE behav[k]]
            /\ CallNode(out)
            /\ UNCHANGED <<builderVars, reactVars, config, run, current_id, state, result,
                           streamVars, cpVars>>

\* variant: the error path also writes the checkpoint
node_returned_PutOnError ==
    /\ pc = "ret"
    /\ IF ret.tag = "Err"
       THEN /\ PutCheckpoint
            /\ Return(ret)
            /\ UNCHANGED state
       ELSE /\ state' = ret.state
            /\ pc' = AfterStatePc(run, stream_mode)
            /\ UNCHANGED <<result, cpVars>>
    /\ UNCHANGED <<builderVars, reactVars, config, around_runs, run, current_id, ret, executed, behav, streamVars>>

\* `.await?` on the node call, then `*state = new_state`
node_returned ==
    /\ pc = "ret"
    /\ IF ret.tag = "Err"
       THEN /\ Return(ret)
            /\ UNCHANGED state
       ELSE /\ state' = ret.state
            /\ pc' = AfterStatePc(run, stream_mode)
            /\ UNCHANGED result
    /\ UNCHANGED <<builderVars, reactVars, config, around_runs, run, current_id, ret, executed, behav,
                   streamVars, cpVars>>

\* variant: Values is offered with try_send and dropped when the channel is full
send_values_TrySend ==
    /\ pc = "values"
    /\ chan' = IF Len(chan) < ChanCap
               THEN Append(chan, ValuesEvent(ValuesPayload(state))) ELSE chan
    /\ pc' = AfterValuesPc(stream_mode)
    /\ UNCHANGED <<builderVars, reactVars, config, around_runs, run, current_id, state, ret,
                   result, executed, behav, stream_mode, custom_offered, tx_open, received,
                   closed, cpVars>>

\* tx.send(StreamEvent::Values(state.clone())).await: waits for a free slot, or
\* returns Err at once when the Receiver is gone; `let _ =` ignores the result
send_values ==
    /\ pc = "values"
    /\ IF closed THEN UNCHANGED chan
       ELSE /\ Len(chan) < ChanCap
            /\ chan' = Append(chan, ValuesEvent(ValuesPayload(state)))
    /\ pc' = AfterValuesPc(stream_mode)
    /\ UNCHANGED <<builderVars, reactVars, config, around_runs, run, current_id, state, ret, result, executed,
                   behav, stream_mode, custom_offered, tx_open, received, closed, cpVars>>

\* tx.send(StreamEvent::Updates { node_id, state }).await
\* variant: a send that fails because the Receiver is gone ends the run
send_updates_StopsWhenDropped ==
    /\ pc = "updates"
    /\ IF closed
       THEN /\ Return(ExecutionFailed("channel closed"))
            /\ UNCHANGED chan
       ELSE /\ Len(chan) < ChanCap
            /\ chan' = Append(chan, UpdatesEvent(UpdatesNode(current_id), state))
            /\ pc' = "next"
            /\ UNCHANGED result
    /\ UNCHANGED <<builderVars, reactVars, config, around_runs, run, current_id, state, ret, executed,
                   behav, stream_mode, custom_offered, tx_open, received, closed, cpVars>>

send_updates ==
    /\ pc = "updates"
    /\ IF closed THEN UNCHANGED chan
       ELSE /\ Len(chan) < ChanCap
            /\ chan' = Append(chan, UpdatesEvent(UpdatesNode(current_id), state))
    /\ pc' = "next"
    /\ UNCHANGED <<builderVars, reactVars, config, around_runs, run, current_id, state, ret, result, executed,
                   behav, stream_mode, custom_offered, tx_open, received, closed, cpVars>>

\* StreamEvent::Custom(value)
CustomEvent(v) == [type |-> "Custom", value |-> v]

\* ToolStreamWriter: tx.try_send(StreamEvent::Custom(value)).is_ok(), called by a tool
\* of the running node; on a full channel nothing is sent and the tool is told false
emit_custom ==
    /\ run = "stream"
    /\ pc = "loop"
    /\ current_id \in compiled.nodes
    /\ "Custom" \in stream_mode
    /\ custom_offered < MaxCustom
    /\ custom_offered' = custom_offered + 1
    /\ chan' = IF Len(chan) < ChanCap
               THEN Append(chan, CustomEvent(custom_offered + 1)) ELSE chan
    /\ UNCHANGED <<builderVars, reactVars, callVars, stream_mode, tx_open, received, closed,
                   cpVars>>

\* variant: a failed put is returned as the run's error
match_next_PutErrorReturned ==
    /\ pc = "next"
    /\ LET d == DispatchNext(compiled, current_id, ret.next)
       IN  CASE d.op = "return" ->
                    /\ PutCheckpoint
                    /\ Return(IF puts' # puts /\ ~puts'[Len(puts')].ok
                              THEN ExecutionFailed("put failed") ELSE RunOk(state))
                    /\ UNCHANGED current_id
             [] d.op = "goto" ->
                    /\ current_id' = d.id
                    /\ pc' = "loop"
                    /\ UNCHANGED <<result, cpVars>>
             [] d.op = "panic" ->
                    /\ Return(Panicked)
                    /\ UNCHANGED <<current_id, cpVars>>
    /\ UNCHANGED <<builderVars, reactVars, config, around_runs, run, state, ret, executed, behav, streamVars>>

\* match next: End and Continue at the last node write the checkpoint and return
match_next ==
    /\ pc = "next"
    /\ LET d == DispatchNext(compiled, current_id, ret.next)
       IN  CASE d.op = "return" ->
                    /\ PutCheckpoint
                    /\ Return(RunOk(state))
                    /\ UNCHANGED current_id
             [] d.op = "goto" ->
                    /\ current_id' = d.id
                    /\ pc' = "loop"
                    /\ UNCHANGED <<result, cpVars>>
             [] d.op = "panic" ->
                    /\ Return(Panicked)
                    /\ UNCHANGED <<current_id, cpVars>>
    /\ UNCHANGED <<builderVars, reactVars, config, around_runs, run, state, ret, executed, behav, streamVars>>

\* variant: the Sender outlives the task
task_exit_SenderKept ==
    /\ pc = "exit"
    /\ pc' = "done"
    /\ UNCHANGED <<builderVars, reactVars, config, around_runs, run, current_id, state, ret, result, executed,
                   behav, streamVars, cpVars>>

\* the spawned task ends (returned or panicked): its RunContext, and the Sender, drop
task_exit ==
    /\ pc = "exit"
    /\ tx_open' = FALSE
    /\ pc' = "done"
    /\ UNCHANGED <<builderVars, reactVars, config, around_runs, run, current_id, state, ret, result, executed,
                   behav, stream_mode, custom_offered, chan, received, closed, cpVars>>

\* the consumer's stream.next().await yields Some(event)
recv ==
    /\ run = "stream"
    /\ chan # <<>>
    /\ received' = Append(received, Head(chan))
    /\ chan' = Tail(chan)
    /\ UNCHANGED <<builderVars, reactVars, callVars, stream_mode, custom_offered, tx_open, closed, cpVars>>

\* the consumer's stream.next().await yields None: channel empty and Sender dropped
end_of_stream ==
    /\ run = "stream"
    /\ chan = <<>>
    /\ ~tx_open
    /\ ~closed
    /\ closed' = TRUE
    /\ UNCHANGED <<builderVars, reactVars, callVars, stream_mode, custom_offered, chan, tx_open, received, cpVars>>

\* the consumer drops the ReceiverStream while the task still holds its Sender:
\* the channel is closed and the events still buffered are lost
drop_consumer ==
    /\ run = "stream"
    /\ tx_open
    /\ ~closed
    /\ closed' = TRUE
    /\ chan' = <<>>
    /\ UNCHANGED <<builderVars, reactVars, callVars, stream_mode, custom_offered, tx_open, received, cpVars>>

\* the builder of the chain START -> RunIds[1] -> ... -> RunIds[k] -> END
ChainBuilderEdges(k) ==
    [i \in 1..(k + 1) |-> <<IF i = 1 THEN START ELSE RunIds[i - 1],
                            IF i = k + 1 THEN END ELSE RunIds[i]>>]

\* a graph compiled from a chain builder with every RunIds node registered, or the
\* empty CompiledStateGraph the unit tests construct directly
InitEngine ==
    /\ middleware = "none"
    /\ \E cp \in {"none", "cp"} :
        \/ \E k \in 0..Len(RunIds) :
              /\ nodes = Range(RunIds)
              /\ edges = ChainBuilderEdges(k)
              /\ compiled = CompileInternal(nodes, edges, cp, "none")
        \/ /\ nodes = {}
           /\ edges = <<>>
           /\ compiled = CompileOk({}, <<>>, cp, "none")
    /\ \E cfg \in {"None", "NoThread", "Thread"} :
        /\ config = cfg
        /\ compiled.checkpointer = "none" => cfg = "Thread"
        /\ run = "none"
        /\ pc = "idle"
        /\ current_id = ""
        /\ state = <<>>
        /\ ret = NoResult
        /\ stream_mode = {}
        /\ custom_offered = 0
        /\ chan = <<>>
        /\ tx_open = FALSE
        /\ received = <<>>
        /\ closed = FALSE
        /\ result = [invoke |-> NoResult, stream |-> NoResult]
        /\ executed = [invoke |-> <<>>, stream |-> <<>>]
        /\ around_runs = <<>>
        /\ puts = <<>>
        /\ saved = <<>>
        /\ behav = <<>>
        /\ ReactIdle

NextEngine ==
    \/ invoke
    \/ \E mode \in ModeSets : stream(mode)
    \/ node_missing
    \/ node_run
    \/ node_returned
    \/ send_values
    \/ send_updates
    \/ match_next
    \/ task_exit
    \/ recv
    \/ end_of_stream

SpecEngine == InitEngine /\ [][NextEngine]_vars

\* a step of run_loop_inner or of the task that runs it
TaskStep ==
    \/ node_missing
    \/ node_run
    \/ node_returned
    \/ send_values
    \/ send_updates
    \/ match_next
    \/ task_exit

\* a graph with a checkpointer, called with a thread id
InitCheckpointing ==
    /\ InitEngine
    /\ compiled.checkpointer = "cp"
    /\ config = "Thread"

\* the runtime keeps polling the call and the spawned task, node calls return, and
\* the consumer keeps polling the ReceiverStream
FairEngine ==
    /\ InitCheckpointing
    /\ [][NextEngine]_vars
    /\ WF_vars(TaskStep)
    /\ WF_vars(recv)
    /\ WF_vars(end_of_stream)

\* a stream asked for every mode, whose consumer may drop it at any time
NextDrop ==
    \/ invoke
    \/ stream(StreamModes)
    \/ TaskStep
    \/ recv
    \/ end_of_stream
    \/ drop_consumer

\* a chain of two or three nodes, with a checkpointer, called with a thread id
InitDrop ==
    /\ InitCheckpointing
    /\ Len(compiled.edge_order) >= 2

\* the spawned task runs on whether or not anyone polls the stream
FairDrop ==
    /\ InitDrop
    /\ [][NextDrop]_vars
    /\ WF_vars(TaskStep)

\* the one-node chain, no checkpointer; the tools of the nodes a run reaches may
\* offer Custom events while they run
InitCustom ==
    /\ InitEngine
    /\ compiled.checkpointer = "none"
    /\ compiled.edge_order = <<"a">>

\* invoke, then a stream that asks for every mode, Custom among them
NextCustom ==
    \/ invoke
    \/ stream(StreamModes)
    \/ TaskStep
    \/ recv
    \/ end_of_stream
    \/ emit_custom

\* as FairEngine; a tool is never obliged to offer an event
FairCustom ==
    /\ InitCustom
    /\ [][NextCustom]_vars
    /\ WF_vars(TaskStep)
    /\ WF_vars(recv)
    /\ WF_vars(end_of_stream)

(***************************************************************************)
(* with_middleware and the four compile methods, on the chain a -> b.      *)
(***************************************************************************)
\* the node middlewares a caller may attach (the CLI's LoggingMiddleware)
Middlewares == {"logging"}

\* Self { middleware: Some(middleware), ..self }
with_middleware(m) ==
    /\ compiled = NotCompiled
    /\ middleware' = m
    /\ UNCHANGED <<nodes, edges, compiled, callVars, streamVars, cpVars, reactVars>>

\* a compile method: the builder is consumed, compile_internal gets the two options
CompileWith(checkpointer, mw) ==
    /\ compiled = NotCompiled
    /\ compiled' = CompileInternal(nodes, edges, checkpointer, mw)
    /\ UNCHANGED <<nodes, edges, middleware, callVars, streamVars, cpVars, reactVars>>

\* self.compile_internal(Some(checkpointer), None)
compile_with_checkpointer == CompileWith("cp", "none")

\* self.compile_internal(None, Some(middleware))
compile_with_middleware(m) == CompileWith("none", m)

\* self.compile_internal(Some(checkpointer), Some(middleware))
compile_with_checkpointer_and_middleware(m) == CompileWith("cp", m)

\* a builder holding the chain START -> a -> b -> END, to be run with a thread id
InitMiddleware ==
    /\ nodes = Range(RunIds)
    /\ edges = ChainBuilderEdges(2)
    /\ middleware = "none"
    /\ compiled = NotCompiled
    /\ config = "Thread"
    /\ run = "none"
    /\ pc = "idle"
    /\ current_id = ""
    /\ state = <<>>
    /\ ret = NoResult
    /\ stream_mode = {}
    /\ custom_offered = 0
    /\ chan = <<>>
    /\ tx_open = FALSE
    /\ received = <<>>
    /\ closed = FALSE
    /\ result = [invoke |-> NoResult, stream |-> NoResult]
    /\ executed = [invoke |-> <<>>, stream |-> <<>>]
    /\ around_runs = <<>>
    /\ puts = <<>>
    /\ saved = <<>>
    /\ behav = <<>>
    /\ ReactIdle

NextMiddleware ==
    \/ \E m \in Middlewares : with_middleware(m)
    \/ compile
    \/ compile_with_checkpointer
    \/ \E m \in Middlewares : compile_with_middleware(m)
    \/ \E m \in Middlewares : compile_with_checkpointer_and_middleware(m)
    \/ NextEngine

SpecMiddleware == InitMiddleware /\ [][NextMiddleware]_vars

(***************************************************************************)
(* react/: ReActState, the Think, Act and Observe nodes, ReactRunner.      *)
(***************************************************************************)
ReactIds == {"think", "act", "observe"}

\* the edges ReactRunner::new adds
ReactEdges ==
    <<<<START, "think">>, <<"think", "act">>, <<"act", "observe">>, <<"observe", END>>>>

ReActState(messages, tool_calls, tool_results, turn_count) ==
    [messages |-> messages, tool_calls |-> tool_calls,
     tool_results |-> tool_results, turn_count |-> turn_count]

Message(role, content) == [role |-> role, content |-> content]

ToolResult(call_id, name, content) == [call_id |-> call_id, name |-> name, content |-> content]

\* ToolCall { id, name, arguments }. A string is a sequence of tokens; the tokens
\* "{tool_name}", "{tool_kwargs}" and "{error}" are the placeholders of the template
ToolCall(id, name, arguments) == [id |-> id, name |-> name, arguments |-> arguments]

\* the argument payloads that parse as JSON, in the text serde_json prints them as
JsonTexts == {<<"{", "q", ":", "{error}", "}">>, <<"{", "k", ":", "1", "}">>}

\* the tool calls an LLM response may carry, in request order: with an empty
\* payload, with JSON payloads, with a payload that is not JSON
ToolCalls ==
    <<ToolCall("t1", <<"get_time">>, <<>>),
      ToolCall("t2", <<"search">>, <<"{", "q", ":", "{error}", "}">>),
      ToolCall("t3", <<"search">>, <<"not json">>),
      ToolCall("t4", <<"lookup">>, <<"{", "k", ":", "1", "}">>)>>

ToolCallLists == {SubSeq(ToolCalls, 1, k) : k \in 0..MaxToolCalls}

\* args of ActNode::run: {} for an empty or unparsable payload, else the parsed
\* value, here in its printed text
ParseArgs(arguments) ==
    IF arguments = <<>> THEN <<"{}">>
    ELSE IF arguments \in JsonTexts THEN arguments
    ELSE <<"{}">>

\* e.to_string() of the ToolSourceError a failing call returns
ErrorText(tc) == <<"tool error", tc.id>>

\* str::replace: every occurrence of the token from, left to right
RECURSIVE Replace(_, _, _)
Replace(text, from, to) ==
    IF text = <<>> THEN <<>>
    ELSE (IF Head(text) = from THEN to ELSE <<Head(text)>>) \o Replace(Tail(text), from, to)

DEFAULT_EXECUTION_ERROR_TEMPLATE ==
    <<"Error executing tool '", "{tool_name}", "' with kwargs ", "{tool_kwargs}",
      " with error:\n ", "{error}", "\n Please fix the error and try again.">>

\* the policies an ActNode is given: Never, Always(None), Always(Some(msg)), Custom(handler)
HandleToolErrors == {"Never", "AlwaysDefault", "AlwaysMsg", "Custom"}

\* the msg of Always(Some(msg))
CustomMsg == <<"Custom error">>

\* the handler of Custom(handler): format!("Tool {} failed: {}", name, e)
ErrorHandlerFn(error, tool_name, tool_args) == <<"Tool ">> \o tool_name \o <<" failed: ">> \o error

\* Result<LlmResponse, AgentError> of LlmClient::invoke / invoke_stream
LlmResponses ==
    {[tag |-> "Ok", content |-> <<"reply", Len(tcs)>>, tool_calls |-> tcs] : tcs \in ToolCallLists}
        \cup {ExecutionFailed(<<"llm error">>)}

RunErrorCheckpoint == [tag |-> "Err", kind |-> "Checkpoint"]

RunErrorExecution(e) == [tag |-> "Err", kind |-> "Execution", error |-> e]

StreamEndedWithoutState == [tag |-> "Err", kind |-> "StreamEndedWithoutState"]

\* the modes stream_with_callback asks for
RunnerModes == {"Messages", "Tasks", "Updates", "Values"}

MessagesEvent(node_id) == [type |-> "Messages", langgraph_node |-> node_id]

\* a state an earlier run of the thread left in the checkpointer
PriorState ==
    ReActState(<<Message("system", <<"prompt">>), Message("user", <<"input">>),
                 Message("assistant", <<"reply">>)>>, <<>>, <<>>, 0)

\* Checkpointer::get_tuple answering Ok: the latest checkpoint of the thread, if any
GetTuple(sv) ==
    [tag |-> "Ok", tuple |-> IF sv = <<>> THEN NoResult
                             ELSE [tag |-> "Some", state |-> sv[Len(sv)]]]

\* Checkpointer::get_tuple answering Err
CheckpointError == [tag |-> "Err"]

\* a state a caller put into the checkpointer by hand, with a round left in it
StaleState ==
    ReActState(<<Message("user", <<"earlier">>)>>, <<ToolCalls[4]>>,
               <<ToolResult("t0", <<"old">>, <<"stale">>)>>, 2)

\* variant: a checkpointer is enough to load, whatever the config
LoadFromCheckpoint_AnyConfig(cp, cfg) == cp # "none"

LoadFromCheckpoint(cp, cfg) == cp # "none" /\ cfg = "Thread"

\* variant: the fresh state starts with the user's message
BuildReactInitialState_NoPrompt(cp, cfg, sv) ==
    IF LoadFromCheckpoint(cp, cfg) /\ sv # <<>>
    THEN [sv[Len(sv)] EXCEPT !.messages = Append(@, Message("user", <<"input">>)),
                             !.tool_calls = <<>>,
                             !.tool_results = <<>>]
    ELSE ReActState(<<Message("user", <<"input">>)>>, <<>>, <<>>, 0)

\* variant: the stored checkpoint is never resumed
BuildReactInitialState_AlwaysFresh(cp, cfg, sv) ==
    ReActState(<<Message("system", <<"prompt">>), Message("user", <<"input">>)>>,
               <<>>, <<>>, 0)

\* build_react_initial_state once get_tuple has answered Ok(tuple)
BuildReactInitialState(cp, cfg, sv) ==
    IF LoadFromCheckpoint(cp, cfg) /\ sv # <<>>
    THEN [sv[Len(sv)] EXCEPT !.messages = Append(@, Message("user", <<"input">>)),
                             !.tool_calls = <<>>,
                             !.tool_results = <<>>]
    ELSE ReActState(<<Message("system", <<"prompt">>), Message("user", <<"input">>)>>,
                    <<>>, <<>>, 0)

\* variant: the response's tool calls are pushed onto those of the state
ThinkRun_CallsAppended(s, response) ==
    IF response.tag = "Err" THEN response
    ELSE NodeOk(ReActState(Append(s.messages, Message("assistant", response.content)),
                           s.tool_calls \o response.tool_calls, s.tool_results,
                           s.turn_count),
                NextContinue)

\* variant: the reply becomes the whole conversation
ThinkRun_MessagesReplaced(s, response) ==
    IF response.tag = "Err" THEN response
    ELSE NodeOk(ReActState(<<Message("assistant", response.content)>>,
                           response.tool_calls, s.tool_results, s.turn_count),
                NextContinue)

\* ThinkNode::run and run_with_context on the LLM's answer
ThinkRun(s, response) ==
    IF response.tag = "Err" THEN response
    ELSE NodeOk(ReActState(Append(s.messages, Message("assistant", response.content)),
                           response.tool_calls, s.tool_results, s.turn_count),
                NextContinue)

\* TEMPLATE.replace("{tool_name}", ..).replace("{tool_kwargs}", ..).replace("{error}", ..):
\* each replace works on the text the one before it returned
FillTemplate(template, tool_name, tool_args, error) ==
    CHOOSE filled \in
        {Replace(with_args, "{error}", error) :
            with_args \in
                {Replace(with_name, "{tool_kwargs}", tool_args) :
                    with_name \in {Replace(template, "{tool_name}", tool_name)}}} : TRUE

\* variant: every mode hands the error back as a message
HandleError_Caught(mode, error, tool_name, tool_args) == [some |-> TRUE, msg |-> error]

\* ActNode::handle_error: Some(message) to keep as a result, or None to propagate
HandleError(mode, error, tool_name, tool_args) ==
    CASE mode = "Never" -> [some |-> FALSE]
      [] mode = "AlwaysMsg" -> [some |-> TRUE, msg |-> CustomMsg]
      [] mode = "AlwaysDefault" ->
            [some |-> TRUE,
             msg |-> FillTemplate(DEFAULT_EXECUTION_ERROR_TEMPLATE, tool_name, tool_args,
                                  error)]
      [] mode = "Custom" -> [some |-> TRUE, msg |-> ErrorHandlerFn(error, tool_name, tool_args)]

\* ToolCallContext::new(state.messages.clone()) as an Option
SomeContext(messages) == [tag |-> "Some", recent_messages |-> messages]

\* ToolSource::set_call_context: the stored context becomes ctx
SetCallContext(stored, ctx) == ctx

\* variant: the error path returns without clearing the context
ClearOnError_Skipped(stored) == stored

\* the set_call_context(None) before return Err(..) in the loop
ClearOnError(stored) == SetCallContext(stored, NoResult)

\* the for loop of ActNode::run from call i on: what run returns, the calls sent
\* to the ToolSource with how each ended and the context stored at the time, and
\* the context the ToolSource is left with
RECURSIVE ActLoop(_, _, _, _, _, _, _)
ActLoop(s, outs, mode, i, tool_results, sent, stored) ==
    IF i > Len(s.tool_calls)
    THEN [ret |-> NodeOk(ReActState(s.messages, s.tool_calls, tool_results, s.turn_count),
                         NextContinue),
          sent |-> sent,
          context |-> SetCallContext(stored, NoResult)]
    ELSE LET tc == s.tool_calls[i]
             args == ParseArgs(tc.arguments)
             sent1 == Append(sent, [call_id |-> tc.id, name |-> tc.name, args |-> args,
                                    outcome |-> outs[i], stored |-> stored])
             handled == HandleError(mode, ErrorText(tc), tc.name, args)
         IN  IF outs[i] = "ok"
             THEN ActLoop(s, outs, mode, i + 1,
                          Append(tool_results, ToolResult(tc.id, tc.name, <<"result", tc.id>>)),
                          sent1, stored)
             ELSE IF handled.some
                  THEN ActLoop(s, outs, mode, i + 1,
                               Append(tool_results, ToolResult(tc.id, tc.name, handled.msg)),
                               sent1, stored)
                  ELSE [ret |-> ExecutionFailed(ErrorText(tc)), sent |-> sent1,
                        context |-> ClearOnError(stored)]

\* variant: the loop pushes onto the results the state came with
ActRun_ResultsKept(s, outs, mode, stored) ==
    ActLoop(s, outs, mode, 1, s.tool_results, <<>>,
            SetCallContext(stored, SomeContext(s.messages)))

\* ActNode::run / run_with_context: the context is published, then the loop runs
ActRun(s, outs, mode, stored) ==
    ActLoop(s, outs, mode, 1, <<>>, <<>>, SetCallContext(stored, SomeContext(s.messages)))

(***************************************************************************)
(* Two runs of one compiled graph in flight at once (two invoke calls, or  *)
(* an invoke and the task a stream spawned), each inside ActNode::run on   *)
(* the ToolSource both share. The run yields at each tool call's await.    *)
(***************************************************************************)
\* the state a run brings to its Act node: its own conversation, one or two tool calls
TaskInputs(t) ==
    {ReActState(<<Message("user", <<t>>)>>, tcs, <<>>, 0) :
        tcs \in {<<ToolCalls[1]>>, <<ToolCalls[1], ToolCalls[4]>>}}

\* ToolCallContext::new(state.messages.clone()); self.tools.set_call_context(Some(ctx))
act_publish(t) ==
    /\ act_tasks[t].pc = "idle"
    /\ \E s \in TaskInputs(t) :
          /\ call_context' = SetCallContext(call_context, SomeContext(s.messages))
          /\ act_tasks' = [act_tasks EXCEPT ![t] =
                              [pc |-> "calls", state |-> s, i |-> 1, tool_results |-> <<>>]]
    /\ UNCHANGED <<builderVars, callVars, streamVars, cpVars, handle_tool_errors, enable_loop,
                   tool_log, final_state, runner_result, llm_log, gets, earlier>>

\* one pass of the for loop: call_tool_with_context(..).await, then the match on its result
act_call_tool(t) ==
    /\ act_tasks[t].pc = "calls"
    /\ act_tasks[t].i <= Len(act_tasks[t].state.tool_calls)
    /\ \E out \in {"ok", "err"} :
          LET a == act_tasks[t]
              tc == a.state.tool_calls[a.i]
              handled == HandleError(handle_tool_errors, ErrorText(tc), tc.name,
                                     ParseArgs(tc.arguments))
              content == IF out = "ok" THEN <<"result", tc.id>> ELSE handled.msg
          IN  IF out = "err" /\ ~handled.some
              THEN /\ call_context' = ClearOnError(call_context)
                   /\ act_tasks' = [act_tasks EXCEPT ![t] =
                                       [pc |-> "done", state |-> a.state,
                                        ret |-> ExecutionFailed(ErrorText(tc))]]
              ELSE /\ act_tasks' = [act_tasks EXCEPT ![t].i = @ + 1,
                                       ![t].tool_results =
                                           Append(@, ToolResult(tc.id, tc.name, content))]
                   /\ UNCHANGED call_context
    /\ UNCHANGED <<builderVars, callVars, streamVars, cpVars, handle_tool_errors, enable_loop,
                   tool_log, final_state, runner_result, llm_log, gets, earlier>>

\* after the loop: self.tools.set_call_context(None); Ok((new_state, Next::Continue))
act_return(t) ==
    /\ act_tasks[t].pc = "calls"
    /\ act_tasks[t].i > Len(act_tasks[t].state.tool_calls)
    /\ call_context' = SetCallContext(call_context, NoResult)
    /\ act_tasks' = [act_tasks EXCEPT ![t] =
                        [pc |-> "done", state |-> @.state,
                         ret |-> NodeOk(ReActState(@.state.messages, @.state.tool_calls,
                                                   @.tool_results, @.state.turn_count),
                                        NextContinue)]]
    /\ UNCHANGED <<builderVars, callVars, streamVars, cpVars, handle_tool_errors, enable_loop,
                   tool_log, final_state, runner_result, llm_log, gets, earlier>>

\* the text of the user message a tool result becomes
ToolResultText(tr) == <<"Tool ">> \o tr.name \o <<" returned: ">> \o tr.content

\* ObserveNode::with_loop: end without tool calls, else fold the results into the
\* messages, clear the round and go back to think
\* ObserveNode::new(): the simple variant, which never routes back to think
ObserveRunNoLoop(s) ==
    IF s.tool_calls = <<>> THEN NodeOk(s, NextEnd)
    ELSE NodeOk(ReActState(
                    s.messages \o [i \in 1..Len(s.tool_results) |->
                                      Message("user", ToolResultText(s.tool_results[i]))],
                    <<>>, <<>>, s.turn_count),
                NextContinue)

ObserveRun(s) ==
    IF s.tool_calls = <<>> THEN NodeOk(s, NextEnd)
    ELSE NodeOk(ReActState(
                    s.messages \o [i \in 1..Len(s.tool_results) |->
                                      Message("user", ToolResultText(s.tool_results[i]))],
                    <<>>, <<>>, s.turn_count),
                NextNode("think"))

\* variant: a failed get_tuple is answered with the fresh state
RunnerStart_FreshOnError(r, empty_result) ==
    \E loaded \in (IF LoadFromCheckpoint(compiled.checkpointer, config)
                   THEN {"ok", "err"} ELSE {"ok"}) :
        /\ gets' = IF LoadFromCheckpoint(compiled.checkpointer, config)
                   THEN Append(gets, IF loaded = "err" THEN CheckpointError
                                     ELSE GetTuple(saved))
                   ELSE gets
        /\ Start(r, BuildReactInitialState(compiled.checkpointer, config,
                                           IF loaded = "err" THEN <<>> ELSE saved),
                 empty_result)
        /\ UNCHANGED runner_result

\* the start of ReactRunner::invoke / stream_with_callback: the initial state is
\* built (get_tuple may fail) and the compiled graph is started on it
RunnerStart(r, empty_result) ==
    \E loaded \in (IF LoadFromCheckpoint(compiled.checkpointer, config)
                   THEN {"ok", "err"} ELSE {"ok"}) :
        /\ gets' = IF LoadFromCheckpoint(compiled.checkpointer, config)
                   THEN Append(gets, IF loaded = "err" THEN CheckpointError
                                     ELSE GetTuple(saved))
                   ELSE gets
        /\ IF loaded = "err"
           THEN /\ runner_result' = RunErrorCheckpoint
                /\ run' = r
                /\ pc' = "returned"
                /\ UNCHANGED <<current_id, state, ret, result>>
           ELSE /\ Start(r, BuildReactInitialState(compiled.checkpointer, config, saved),
                         empty_result)
                /\ UNCHANGED runner_result

react_invoke ==
    /\ run = "none"
    /\ RunnerStart("invoke", ExecutionFailed("empty graph"))
    /\ UNCHANGED <<builderVars, config, around_runs, executed, behav, streamVars, cpVars,
                   handle_tool_errors, enable_loop, act_tasks, tool_log, final_state, call_context, llm_log, earlier>>

\* compiled.invoke(...).await? ; Ok(final_state)
invoke_returns ==
    /\ run = "invoke"
    /\ pc = "done"
    /\ runner_result = NoResult
    /\ runner_result' = IF result.invoke.tag = "Ok" THEN result.invoke
                        ELSE RunErrorExecution(result.invoke)
    /\ UNCHANGED <<builderVars, callVars, streamVars, cpVars,
                   handle_tool_errors, enable_loop, act_tasks, tool_log, final_state, call_context, llm_log, gets,
                   earlier>>

stream_with_callback ==
    /\ run = "none"
    /\ RunnerStart("stream", NoResult)
    /\ stream_mode' = RunnerModes
    /\ chan' = <<>>
    /\ tx_open' = (runner_result' = NoResult)
    /\ final_state' = NoResult
    /\ UNCHANGED <<builderVars, config, around_runs, executed, behav, custom_offered, received,
                   closed, cpVars,
                   handle_tool_errors, enable_loop, act_tasks, tool_log, call_context, llm_log, earlier>>

\* the engine's node call in a ReAct run; a round is begun only if the bound on
\* the node calls of a run leaves room for its three nodes
CallReactNode(id, out, next_pc) ==
    /\ pc = "loop"
    /\ current_id = id
    /\ id \in compiled.nodes
    /\ Len(executed[run]) + (IF id = "think" THEN 3 ELSE 1) <= MaxCalls
    /\ AroundRun(id)
    /\ ret' = out
    /\ executed' = [executed EXCEPT ![run] = Append(@, id)]
    /\ pc' = next_pc

\* variant: Think returns as soon as the LLM has answered
AfterLlmPc_NotAwaited(chunks) == "ret"

\* `let _ = forward_task.await` before `result?`: a chunk the LLM sent is forwarded
\* before Think returns, whatever the LLM answered
AfterLlmPc(chunks) == IF chunks = 1 THEN "chunk" ELSE "ret"

\* ThinkNode: in a stream that asked for Messages the LLM's chunks are forwarded
think_run ==
    \E response \in LlmResponses, chunks \in 0..1 :
        /\ chunks = 1 => (run = "stream" /\ "Messages" \in stream_mode)
        /\ CallReactNode("think", ThinkRun(state, response), AfterLlmPc(chunks))
        /\ llm_log' = Append(llm_log, [state |-> state, response |-> response,
                                        chunks |-> chunks])
        /\ UNCHANGED <<builderVars, config, run, current_id, state, result, behav,
                       streamVars, cpVars, handle_tool_errors, enable_loop, act_tasks, tool_log, final_state,
                       runner_result, call_context, gets, earlier>>

\* the forwarding task: stream_tx.send(StreamEvent::Messages { .. }).await
forward_chunk ==
    /\ pc = "chunk"
    /\ Len(chan) < ChanCap
    /\ chan' = Append(chan, MessagesEvent("think"))
    /\ pc' = "ret"
    /\ UNCHANGED <<builderVars, reactVars, config, around_runs, run, current_id, state, ret, result,
                   executed, behav, stream_mode, custom_offered, tx_open, received, closed, cpVars>>

\* ActNode: every tool call of the round answers Ok or Err
act_run ==
    /\ pc = "loop"
    /\ current_id = "act"
    /\ \E outs \in [1..Len(state.tool_calls) -> {"ok", "err"}] :
          LET a == ActRun(state, outs, handle_tool_errors, call_context)
          IN  /\ CallReactNode("act", a.ret, "ret")
              /\ tool_log' = Append(tool_log, a.sent)
              /\ call_context' = a.context
    /\ UNCHANGED <<builderVars, config, run, current_id, state, result, behav,
                   streamVars, cpVars, handle_tool_errors, enable_loop, act_tasks, final_state, runner_result,
                   llm_log, gets, earlier>>

observe_run ==
    /\ CallReactNode("observe",
                     IF enable_loop THEN ObserveRun(state) ELSE ObserveRunNoLoop(state), "ret")
    /\ UNCHANGED <<builderVars, config, run, current_id, state, result, behav,
                   streamVars, cpVars, reactVars>>

\* the while let Some(event) loop of stream_with_callback
callback_recv ==
    /\ run = "stream"
    /\ runner_result = NoResult
    /\ chan # <<>>
    /\ received' = Append(received, Head(chan))
    /\ chan' = Tail(chan)
    /\ final_state' = IF Head(chan).type = "Values"
                      THEN [tag |-> "Some", state |-> Head(chan).state]
                      ELSE final_state
    /\ UNCHANGED <<builderVars, callVars, stream_mode, custom_offered, tx_open, closed, cpVars,
                   handle_tool_errors, enable_loop, act_tasks, tool_log, runner_result, call_context, llm_log, gets,
                   earlier>>

\* the stream has ended: final_state.ok_or(RunError::StreamEndedWithoutState)
stream_returns ==
    /\ run = "stream"
    /\ runner_result = NoResult
    /\ chan = <<>>
    /\ ~tx_open
    /\ closed' = TRUE
    /\ runner_result' = IF final_state.tag = "Some" THEN RunOk(final_state.state)
                        ELSE StreamEndedWithoutState
    /\ UNCHANGED <<builderVars, callVars, stream_mode, custom_offered, chan, tx_open, received, cpVars,
                   handle_tool_errors, enable_loop, act_tasks, tool_log, final_state, call_context, llm_log, gets,
                   earlier>>

\* a runner made by ReactRunner::new, its ActNode with either error policy
InitReact ==
    /\ nodes = ReactIds
    /\ middleware = "none"
    /\ edges = ReactEdges
    /\ \E cp \in {"none", "cp"} : compiled = CompileInternal(nodes, edges, cp, "none")
    /\ config \in {"None", "NoThread", "Thread"}
    /\ compiled.checkpointer = "none" => config = "Thread"
    /\ handle_tool_errors \in {"Never", "AlwaysDefault"}
    /\ saved \in (IF compiled.checkpointer = "cp"
                  THEN {<<>>, <<PriorState>>, <<StaleState>>} ELSE {<<>>})
    /\ puts = <<>>
    /\ run = "none"
    /\ pc = "idle"
    /\ current_id = ""
    /\ state = <<>>
    /\ ret = NoResult
    /\ stream_mode = {}
    /\ custom_offered = 0
    /\ chan = <<>>
    /\ tx_open = FALSE
    /\ received = <<>>
    /\ closed = FALSE
    /\ result = [invoke |-> NoResult, stream |-> NoResult]
    /\ executed = [invoke |-> <<>>, stream |-> <<>>]
    /\ around_runs = <<>>
    /\ behav = <<>>
    /\ tool_log = <<>>
    /\ final_state = NoResult
    /\ runner_result = NoResult
    /\ call_context = NoResult
    /\ enable_loop = TRUE
    /\ act_tasks = NoTasks
    /\ llm_log = <<>>
    /\ gets = <<>>
    /\ earlier = NoResult

NextReact ==
    \/ react_invoke
    \/ invoke_returns
    \/ stream_with_callback
    \/ think_run
    \/ forward_chunk
    \/ act_run
    \/ observe_run
    \/ node_returned
    \/ send_values
    \/ send_updates
    \/ match_next
    \/ task_exit
    \/ callback_recv
    \/ stream_returns

SpecReact == InitReact /\ [][NextReact]_vars

\* the modes run_react_graph_stream asks compiled.stream for
CliModes == {"Messages", "Tasks", "Updates"}

\* langgraph-cli's run_react_graph_stream: the runner's graph, streamed with
\* CliModes and consumed by the same loop (final_state = Some(s) on Values(s))
run_react_graph_stream ==
    /\ run = "none"
    /\ RunnerStart("stream", NoResult)
    /\ stream_mode' = CliModes
    /\ chan' = <<>>
    /\ tx_open' = (runner_result' = NoResult)
    /\ final_state' = NoResult
    /\ UNCHANGED <<builderVars, config, around_runs, executed, behav, custom_offered, received,
                   closed, cpVars,
                   handle_tool_errors, enable_loop, act_tasks, tool_log, call_context, llm_log, earlier>>

\* send_values is left out: it is enabled only when Values is among the modes
NextCli ==
    \/ run_react_graph_stream
    \/ think_run
    \/ forward_chunk
    \/ act_run
    \/ observe_run
    \/ node_returned
    \/ send_updates
    \/ match_next
    \/ task_exit
    \/ callback_recv
    \/ stream_returns

SpecCli == InitReact /\ [][NextCli]_vars

(***************************************************************************)
(* The think -> act -> observe graph invoked directly, on a state of the   *)
(* caller's choice and with an ActNode of any error policy.                *)
(***************************************************************************)
\* the states a caller hands to the compiled graph
NodeInputs ==
    {ReActState(msgs, tcs, trs, turn) :
        msgs \in {<<>>, <<Message("user", <<"input">>)>>},
        tcs \in {<<>>, <<ToolCalls[4]>>},
        trs \in {<<>>, <<ToolResult("t0", <<"old">>, <<"stale">>)>>},
        turn \in {0, 2}}

\* compiled.invoke(state, config)
graph_invoke ==
    /\ run = "none"
    /\ \E s \in NodeInputs : Start("invoke", s, ExecutionFailed("empty graph"))
    /\ UNCHANGED <<builderVars, reactVars, config, around_runs, executed, behav, streamVars, cpVars>>

\* the graph of ReactRunner::new built by hand, its ActNode given a policy by
\* with_handle_tool_errors
AssembledGraph(loop) ==
    /\ nodes = ReactIds
    /\ middleware = "none"
    /\ edges = ReactEdges
    /\ compiled = CompileInternal(nodes, edges, "none", "none")
    /\ config \in {"None", "Thread"}
    /\ handle_tool_errors \in HandleToolErrors
    /\ saved = <<>>
    /\ puts = <<>>
    /\ run = "none"
    /\ pc = "idle"
    /\ current_id = ""
    /\ state = <<>>
    /\ ret = NoResult
    /\ stream_mode = {}
    /\ custom_offered = 0
    /\ chan = <<>>
    /\ tx_open = FALSE
    /\ received = <<>>
    /\ closed = FALSE
    /\ result = [invoke |-> NoResult, stream |-> NoResult]
    /\ executed = [invoke |-> <<>>, stream |-> <<>>]
    /\ around_runs = <<>>
    /\ behav = <<>>
    /\ tool_log = <<>>
    /\ final_state = NoResult
    /\ runner_result = NoResult
    /\ call_context = NoResult
    /\ enable_loop = loop
    /\ act_tasks = NoTasks
    /\ llm_log = <<>>
    /\ gets = <<>>
    /\ earlier = NoResult

InitNodes == AssembledGraph(TRUE)

NextNodes ==
    \/ graph_invoke
    \/ think_run
    \/ act_run
    \/ observe_run
    \/ node_returned
    \/ match_next

SpecNodes == InitNodes /\ [][NextNodes]_vars

\* the graph of run_with_config: think -> act -> observe with ObserveNode::new()
InitLinear == AssembledGraph(FALSE)

SpecLinear == InitLinear /\ [][NextNodes]_vars

\* the hand-built graph before any of its concurrent runs has reached Act
InitConcurrent ==
    /\ InitNodes
    /\ config = "None"

NextConcurrent ==
    \E t \in Tasks :
        \/ act_publish(t)
        \/ act_call_tool(t)
        \/ act_return(t)

SpecConcurrent == InitConcurrent /\ [][NextConcurrent]_vars

\* ReactRunner::invoke alone
NextInvoke ==
    \/ react_invoke
    \/ think_run
    \/ act_run
    \/ observe_run
    \/ node_returned
    \/ match_next
    \/ invoke_returns

\* what invoke does once the LLM has answered: the rest of the loop and the return
InvokeStep ==
    \/ act_run
    \/ observe_run
    \/ node_returned
    \/ match_next
    \/ invoke_returns

\* run_loop_inner awaits each node in turn: a node that can run does, its answer
\* is dispatched and invoke returns what the loop returned
FairInvoke == InitReact /\ [][NextInvoke]_vars /\ WF_vars(InvokeStep)

(***************************************************************************)
(* Two calls of invoke on one runner, whose checkpointer keeps what the    *)
(* first call stored for the thread.                                       *)
(***************************************************************************)
\* the caller, holding what the first invoke returned, is about to call again
next_run ==
    /\ run = "invoke"
    /\ runner_result # NoResult
    /\ earlier = NoResult
    /\ earlier' = [result |-> runner_result, puts |-> puts]
    /\ run' = "none"
    /\ pc' = "idle"
    /\ current_id' = ""
    /\ state' = <<>>
    /\ ret' = NoResult
    /\ result' = [invoke |-> NoResult, stream |-> NoResult]
    /\ executed' = [invoke |-> <<>>, stream |-> <<>>]
    /\ runner_result' = NoResult
    /\ puts' = <<>>
    /\ gets' = <<>>
    /\ llm_log' = <<>>
    /\ tool_log' = <<>>
    /\ UNCHANGED <<builderVars, config, around_runs, behav, streamVars, saved, handle_tool_errors, enable_loop, act_tasks,
                   final_state, call_context>>

\* a runner made by ReactRunner::new with a checkpointer and a thread id
InitThread ==
    /\ InitReact
    /\ compiled.checkpointer = "cp"
    /\ config = "Thread"
    /\ handle_tool_errors = "Never"
    /\ saved \in {<<>>, <<PriorState>>}

NextThread ==
    \/ NextInvoke
    \/ next_run

SpecThread == InitThread /\ [][NextThread]_vars

(***************************************************************************)
(* Properties of invoke and stream on the abstract graphs.                 *)
(***************************************************************************)
Last(s) == s[Len(s)]

\* the call r has returned (for stream: its task's run_loop_inner has)
Finished(r) == result[r] # NoResult

\* the state the i-th node call of call r was given: every earlier call succeeded
InputState(r, i) == SubSeq(executed[r], 1, i - 1)

\* what the i-th node call of call r returned
Answer(r, i) == behav[<<executed[r][i], InputState(r, i)>>]

PutsOf(r) == SelectSeq(puts, LAMBDA p : p.run = r)

\* C1: invoke starts at the first node of the execution order and after each node
\* follows the Next it returned: Continue (from a node of the execution order)
\* runs its successor or ends the run at the last node, Node(id) (id registered)
\* runs id next, End ends the run at once; so no node runs after End, and in the
\* chain a -> b -> c where a answers Node(c) and c does not jump, b never runs.
C1_InvokeFollowsNext ==
    LET ex == executed.invoke
        order == compiled.edge_order
    IN  /\ Len(ex) >= 1 => ex[1] = order[1]
        /\ \A i \in 1..Len(ex) :
              LET a == Answer("invoke", i)
                  pos == Position(order, ex[i])
              IN  /\ i < Len(ex) =>
                        /\ a.tag = "Ok"
                        /\ a.next.t # "End"
                        /\ a.next.t = "Node" => ex[i + 1] = a.next.id
                        /\ a.next.t = "Continue" =>
                              /\ pos \in 1..(Len(order) - 1)
                              /\ ex[i + 1] = order[pos + 1]
                  /\ (i = Len(ex) /\ a.tag = "Ok" /\ Finished("invoke")) =>
                        /\ a.next.t = "End" => result.invoke = RunOk(ex)
                        /\ a.next.t = "Continue" =>
                              \/ pos = 0
                              \/ pos = Len(order) /\ result.invoke = RunOk(ex)
                        /\ a.next.t = "Node" => a.next.id \notin compiled.nodes
        /\ (/\ order = <<"a", "b", "c">>
            /\ Len(ex) >= 1
            /\ Answer("invoke", 1) = NodeOk(<<"a">>, NextNode("c"))
            /\ \A i \in 2..Len(ex) : ex[i] = "c" => Answer("invoke", i).tag = "Ok"
                                                    /\ Answer("invoke", i).next.t # "Node")
              => "b" \notin Range(ex)

\* invoke on a -> b -> c has run a, jumped to c, and returned after c's Continue
C1_Witness ==
    /\ compiled.edge_order = <<"a", "b", "c">>
    /\ executed.invoke = <<"a", "c">>
    /\ result.invoke = RunOk(<<"a", "c">>)
    /\ Answer("invoke", 1).next = NextNode("c")
    /\ Answer("invoke", 2).next = NextContinue

\* the graph was compiled with a checkpointer and the call's config names a thread
CheckpointingOn == compiled.checkpointer = "cp" /\ config = "Thread"

\* C4 as stated: a run that ends normally calls put exactly once, after its last
\* node and with the final state, when a checkpointer is attached and the config
\* has a thread id, and never otherwise or earlier; after such a run get_tuple
\* for the thread returns a checkpoint.
C4_AsStated ==
    \A r \in {"invoke", "stream"} :
        /\ Len(PutsOf(r)) <= 1
        /\ Len(PutsOf(r)) = 1 => result[r].tag = "Ok"
        /\ result[r].tag = "Ok" =>
              IF CheckpointingOn
              THEN /\ Len(PutsOf(r)) = 1
                   /\ PutsOf(r)[1].state = result[r].state
                   /\ PutsOf(r)[1].nexec = Len(executed[r])
                   /\ saved # <<>>
              ELSE Len(PutsOf(r)) = 0

\* C4 (amended): as stated, except that get_tuple returns a checkpoint (the one
\* carrying the run's final state) after the run only if the run's put succeeded:
\* the engine ignores a failed put.
C4_OnePutAtTermination ==
    /\ \A r \in {"invoke", "stream"} :
        /\ Len(PutsOf(r)) <= 1
        /\ Len(PutsOf(r)) = 1 => result[r].tag = "Ok"
        /\ result[r].tag = "Ok" =>
              IF CheckpointingOn
              THEN /\ Len(PutsOf(r)) = 1
                   /\ PutsOf(r)[1].state = result[r].state
                   /\ PutsOf(r)[1].nexec = Len(executed[r])
              ELSE Len(PutsOf(r)) = 0
    /\ (puts # <<>> /\ Last(puts).ok) => (saved # <<>> /\ Last(saved) = Last(puts).state)

\* a three-node run ended by Continue at the last node and a run ended by End have
\* each written their one checkpoint
C4_Witness ==
    /\ compiled.edge_order = <<"a", "b", "c">>
    /\ result.invoke = RunOk(<<"a", "b", "c">>)
    /\ Answer("invoke", 3).next = NextContinue
    /\ Len(PutsOf("invoke")) = 1
    /\ saved = <<result.invoke.state>>

\* the events the engine sends for the k-th successful node call of the stream
EventsOfStep(k) ==
    LET s == SubSeq(executed.stream, 1, k)
    IN  (IF "Values" \in stream_mode THEN <<ValuesEvent(s)>> ELSE <<>>)
            \o (IF "Updates" \in stream_mode
                THEN <<UpdatesEvent(executed.stream[k], s)>> ELSE <<>>)

RECURSIVE EventsUpTo(_)
EventsUpTo(k) == IF k = 0 THEN <<>> ELSE EventsUpTo(k - 1) \o EventsOfStep(k)

\* every event sent so far, in the order sent
Produced == received \o chan

\* C5: the events of a streamed run appear in node-execution order: per node call
\* Values(post-step state) if requested, then Updates{node id, post-step state}
\* if requested, both sent before that node's Next is interpreted; never a
\* Messages or Custom event from the step loop; so n Continue nodes streamed
\* with Values and Updates give exactly 2n events.
C5_EventsInNodeOrder ==
    run = "stream" =>
        LET k == Len(state)
        IN  /\ pc \in {"loop", "ret", "next", "exit", "done"} => Produced = EventsUpTo(k)
            /\ pc = "values" => Produced = EventsUpTo(k - 1)
            /\ pc = "updates" =>
                  Produced = EventsUpTo(k - 1)
                      \o (IF "Values" \in stream_mode THEN <<ValuesEvent(state)>> ELSE <<>>)
            /\ \A i \in 1..Len(Produced) : Produced[i].type \in {"Values", "Updates"}
            /\ (/\ closed
                /\ {"Values", "Updates"} \subseteq stream_mode
                /\ executed.stream = compiled.edge_order
                /\ \A i \in 1..Len(executed.stream) : Answer("stream", i).tag = "Ok"
                                                     /\ Answer("stream", i).next = NextContinue)
                  => Len(received) = 2 * Len(compiled.edge_order)

\* the two-node chain streamed with all four modes has delivered its four events
C5_Witness ==
    /\ closed
    /\ stream_mode = StreamModes
    /\ received = <<ValuesEvent(<<"a">>), UpdatesEvent("a", <<"a">>),
                    ValuesEvent(<<"a", "b">>), UpdatesEvent("b", <<"a", "b">>)>>
    /\ compiled.edge_order = <<"a", "b">>

ValuesReceived == SelectSeq(received, LAMBDA e : e.type = "Values")

\* C7: on the same graph, initial state and (deterministic) nodes, a streamed run
\* calls the same nodes in the same order as invoke and ends the same way, and
\* the state of its last Values event is the state invoke returned.
C7_StreamMatchesInvoke ==
    (run = "stream" /\ Finished("stream")) =>
        /\ executed.stream = executed.invoke
        /\ result.stream.tag = result.invoke.tag
        /\ (closed /\ "Values" \in stream_mode /\ result.invoke.tag = "Ok") =>
              /\ ValuesReceived # <<>>
              /\ Last(ValuesReceived).state = result.invoke.state

\* invoke and a Values stream of a -> b -> c have both run a, c and ended on <<a, c>>
C7_Witness ==
    /\ closed
    /\ stream_mode = {"Values"}
    /\ compiled.edge_order = <<"a", "b", "c">>
    /\ executed.stream = <<"a", "c">>
    /\ result.invoke = RunOk(<<"a", "c">>)
    /\ Last(ValuesReceived).state = <<"a", "c">>

\* C8: when a node call fails during invoke, invoke returns that error at once:
\* the failed node is the last one called, the caller gets no state, and no
\* checkpoint is written for the run.
C8_InvokeFailsFast ==
    LET ex == executed.invoke
    IN  /\ \A i \in 1..Len(ex) :
              Answer("invoke", i).tag = "Err" =>
                  /\ i = Len(ex)
                  /\ (run # "invoke" \/ pc # "ret") =>
                        /\ result.invoke = Answer("invoke", i)
                        /\ "state" \notin DOMAIN result.invoke
                        /\ Len(PutsOf("invoke")) = 0
                        /\ saved = <<>> \/ run = "stream"
        /\ result.invoke.tag = "Err" =>
              \/ Len(ex) = 0 /\ compiled.edge_order = <<>>
              \/ Len(ex) >= 1 /\ Answer("invoke", Len(ex)) = result.invoke

\* with a checkpointer and a thread id, b failed after a succeeded: invoke returned
\* b's error and nothing was saved
C8_Witness ==
    /\ CheckpointingOn
    /\ run = "invoke"
    /\ executed.invoke = <<"a", "b">>
    /\ result.invoke = ExecutionFailed(<<"node failed", "b">>)
    /\ puts = <<>>
    /\ saved = <<>>

\* C6: every stream() call, drained by its consumer, yields finitely many events
\* and then closes, exactly once and only after the task has finished: after a
\* normal end, after a node failure (with no error event on the stream), and for
\* the empty graph (with no event at all).
C6_StreamCloses ==
    /\ [][closed => (closed' /\ received' = received)]_vars
    /\ (run = "stream") ~>
          (/\ closed
           /\ pc = "done"
           /\ ~tx_open
           /\ chan = <<>>
           /\ Len(received) <= 2 * Len(executed.stream)
           /\ \A i \in 1..Len(received) : received[i].type \in {"Values", "Updates"}
           /\ compiled.edge_order = <<>> => received = <<>>)

\* a Values stream whose second node failed closed after the first node's event
C6_Witness ==
    /\ closed
    /\ result.stream = ExecutionFailed(<<"node failed", "b">>)
    /\ received = <<ValuesEvent(<<"a">>)>>

(***************************************************************************)
(* Properties of the ReAct runner.                                         *)
(***************************************************************************)
\* C9 as stated: when a node of a streamed ReAct run fails, stream_with_callback
\* returns that failure as an execution error: never Ok with the state of an
\* earlier Values event, and StreamEndedWithoutState only when no node failed.
C9_StreamFailureIsReported ==
    (run = "stream" /\ runner_result # NoResult /\ result.stream.tag = "Err")
        => runner_result = RunErrorExecution(result.stream)

\* C10: with HandleToolErrors::Never the first failing tool call ends Act with an
\* error at once: no later call of the round (or of the run) is sent to the
\* ToolSource, the calls before it were sent in order, the state keeps no
\* ToolResult of the round, and the run, and ReactRunner::invoke, return
\* ExecutionFailed carrying that tool's error.
C10_NeverFailsFast ==
    handle_tool_errors = "Never" =>
        \A k \in 1..Len(tool_log) :
            \A i \in 1..Len(tool_log[k]) :
                tool_log[k][i].outcome = "err" =>
                    LET sent == tool_log[k]
                        err == ExecutionFailed(<<"tool error", sent[i].call_id>>)
                    IN  /\ k = Len(tool_log)
                        /\ i = Len(sent)
                        /\ i <= Len(state.tool_calls)
                        /\ \A j \in 1..i : sent[j].call_id = state.tool_calls[j].id
                        /\ \A j \in 1..(i - 1) : sent[j].outcome = "ok"
                        /\ state.tool_results = <<>>
                        /\ Last(executed[run]) = "act"
                        /\ IF pc = "ret" THEN ret = err ELSE result[run] = err
                        /\ (run = "invoke" /\ runner_result # NoResult)
                              => runner_result = RunErrorExecution(err)
                        /\ puts = <<>>

\* the LLM asked for t1 and t2, t1 failed: t2 was never sent and invoke returned the error
C10_Witness ==
    /\ handle_tool_errors = "Never"
    /\ run = "invoke"
    /\ runner_result = RunErrorExecution(ExecutionFailed(<<"tool error", "t1">>))
    /\ state.tool_calls = SubSeq(ToolCalls, 1, 2)
    /\ Len(tool_log) = 1
    /\ Len(tool_log[1]) = 1
    /\ tool_log[1][1].call_id = "t1"
    /\ tool_log[1][1].outcome = "err"

(***************************************************************************)
(* Properties of the ReAct nodes.                                          *)
(***************************************************************************)
\* Act has just returned: state is what it was given, ret what it answered and
\* the last entry of tool_log the calls it sent
ActReturned == pc = "ret" /\ current_id = "act"

\* the default template with each placeholder filled by its value
FilledTemplate(tool_name, tool_args, error) ==
    <<"Error executing tool '">> \o tool_name \o <<"' with kwargs ">> \o tool_args
        \o <<" with error:\n ">> \o error \o <<"\n Please fix the error and try again.">>

\* the message the policy is to give for the failure of call tc
ErrorMessage(mode, tc) ==
    CASE mode = "AlwaysDefault" ->
            FilledTemplate(tc.name, ParseArgs(tc.arguments), ErrorText(tc))
      [] mode = "AlwaysMsg" -> CustomMsg
      [] mode = "Custom" -> ErrorHandlerFn(ErrorText(tc), tc.name, ParseArgs(tc.arguments))

\* a text that holds a placeholder of the template
HasPlaceholder(text) ==
    \E i \in 1..Len(text) : text[i] \in {"{tool_name}", "{tool_kwargs}", "{error}"}

\* Act under Always or Custom never fails, sends every call of the round and
\* returns Continue with one ToolResult per call; failed(i, tc) => the i-th
\* result's content is the policy's message for call tc
ErrorsBecomeResults(Checked(_)) ==
    (ActReturned /\ handle_tool_errors # "Never") =>
        LET sent == Last(tool_log)
        IN  /\ ret.tag = "Ok"
            /\ ret.next = NextContinue
            /\ Len(sent) = Len(state.tool_calls)
            /\ Len(ret.state.tool_results) = Len(state.tool_calls)
            /\ \A i \in 1..Len(sent) :
                  LET tc == state.tool_calls[i]
                  IN  /\ sent[i].call_id = tc.id
                      /\ ret.state.tool_results[i].call_id = tc.id
                      /\ (sent[i].outcome = "err" /\ Checked(tc)) =>
                            ret.state.tool_results[i].content
                                = ErrorMessage(handle_tool_errors, tc)

AnyCall(tc) == TRUE

PlainCall(tc) == ~HasPlaceholder(tc.name) /\ ~HasPlaceholder(ParseArgs(tc.arguments))

\* C11: with HandleToolErrors::Always or Custom a failing tool call never fails
\* Act: it yields a ToolResult for that call whose content is the error message
\* (Always(None): the default template filled with the tool name, its arguments
\* and the error text; Always(Some(msg)): msg; Custom: the handler's return), the
\* remaining calls of the round are still executed, and Act returns Continue with
\* exactly one ToolResult per tool call.
C11_ErrorsBecomeResults == ErrorsBecomeResults(AnyCall)

\* what does hold: the same, for calls whose name and arguments hold no placeholder
C11_PlainCallsOnly == ErrorsBecomeResults(PlainCall)

\* under Always(None) the first call of a round of two has failed and the second
\* was still sent
C11_Witness ==
    /\ ActReturned
    /\ handle_tool_errors = "AlwaysDefault"
    /\ Len(Last(tool_log)) = 2
    /\ Last(tool_log)[1].outcome = "err"
    /\ ret.tag = "Ok"
    /\ Len(ret.state.tool_results) = 2

\* C12: after Act succeeds tool_results holds exactly one ToolResult per entry of
\* tool_calls, in the same order, the i-th carrying the i-th call's id and name
\* (results present before the step are replaced, not kept); the ToolSource was
\* called exactly once per tool call, in order, and not at all when tool_calls is
\* empty; messages, tool_calls and turn_count are unchanged and Act returns
\* Next::Continue.
C12_OneResultPerCall ==
    (ActReturned /\ ret.tag = "Ok") =>
        LET sent == Last(tool_log)
            calls == state.tool_calls
            results == ret.state.tool_results
        IN  /\ Len(results) = Len(calls)
            /\ Len(sent) = Len(calls)
            /\ \A i \in 1..Len(calls) :
                  /\ results[i].call_id = calls[i].id
                  /\ results[i].name = calls[i].name
                  /\ sent[i].call_id = calls[i].id
                  /\ sent[i].name = calls[i].name
                  /\ sent[i].args = ParseArgs(calls[i].arguments)
            /\ ret.state.messages = state.messages
            /\ ret.state.tool_calls = calls
            /\ ret.state.turn_count = state.turn_count
            /\ ret.next = NextContinue

\* Act has succeeded on a state that came with a stale result and two calls
C12_Witness ==
    /\ ActReturned
    /\ ret.tag = "Ok"
    /\ state.tool_results # <<>>
    /\ Len(state.tool_calls) = 2
    /\ state.turn_count = 2
    /\ Len(ret.state.tool_results) = 2

\* C13: Act publishes the round's context to the ToolSource (the current
\* messages) before the first tool call of the round, so every call of the round
\* finds it stored, and clears it before it returns, on the success path and on
\* the error-propagation path alike; so the ToolSource holds no context whenever
\* no Act step is executing, and a failed round leaves none behind.
C13_ContextOnlyDuringAct ==
    /\ call_context = NoResult
    /\ ActReturned =>
          \A i \in 1..Len(Last(tool_log)) :
              Last(tool_log)[i].stored = SomeContext(state.messages)

\* Act has propagated the failure of the second call of a round; both calls found
\* the context and none is left
C13_Witness ==
    /\ ActReturned
    /\ ret.tag = "Err"
    /\ Len(Last(tool_log)) = 2
    /\ Last(tool_log)[2].stored = SomeContext(state.messages)
    /\ state.messages # <<>>
    /\ call_context = NoResult

\* Think has just returned: state is what it was given, ret what it answered and
\* the last entry of llm_log what the LLM answered
ThinkReturned == pc \in {"ret", "chunk"} /\ current_id = "think"

\* C14: Think keeps the messages as a prefix and appends exactly one Assistant
\* message holding the LLM's response text, replaces tool_calls with the tool
\* calls of the response (empty when none), leaves tool_results and turn_count
\* unchanged and returns Next::Continue; when the LLM call fails Think returns the
\* error and produces no state.
C14_ThinkAppendsReply ==
    ThinkReturned =>
        LET response == Last(llm_log).response
        IN  /\ Last(llm_log).state = state
            /\ response.tag = "Err" =>
                  /\ ret.tag = "Err"
                  /\ ret.msg = response.msg
                  /\ "state" \notin DOMAIN ret
            /\ response.tag = "Ok" =>
                  /\ ret.tag = "Ok"
                  /\ Len(ret.state.messages) = Len(state.messages) + 1
                  /\ SubSeq(ret.state.messages, 1, Len(state.messages)) = state.messages
                  /\ Last(ret.state.messages) = Message("assistant", response.content)
                  /\ ret.state.tool_calls = response.tool_calls
                  /\ ret.state.tool_results = state.tool_results
                  /\ ret.state.turn_count = state.turn_count
                  /\ ret.next = NextContinue

\* Think has answered without tool calls on a state that came with a message, a
\* stale tool call, a stale result and a turn count
C14_Witness ==
    /\ ThinkReturned
    /\ state.messages # <<>>
    /\ state.tool_calls # <<>>
    /\ state.tool_results # <<>>
    /\ state.turn_count = 2
    /\ ret.tag = "Ok"
    /\ ret.state.tool_calls = <<>>
    /\ Len(ret.state.messages) = 2

\* Observe has just returned: state is what it was given and ret what it answered
ObserveReturned == pc = "ret" /\ current_id = "observe"

\* part occurs in text
Contains(text, part) ==
    \E k \in 0..(Len(text) - Len(part)) : SubSeq(text, k + 1, k + Len(part)) = part

\* C15: in the looping ReAct graph, every time Observe completes, whether it loops
\* back to Think or ends the run, tool_calls and tool_results are both empty and
\* every tool result of the round has been appended to messages as a user-role
\* entry containing the tool's result text; hence every Think step other than the
\* first of a run starts with empty tool_calls and tool_results, and the final
\* state of a run has empty tool_calls and tool_results.
C15_ObserveClearsRound ==
    /\ ObserveReturned =>
          LET before == state.messages
              after == ret.state.messages
              round == state.tool_results
          IN  /\ ret.tag = "Ok"
              /\ ret.state.tool_calls = <<>>
              /\ ret.state.tool_results = <<>>
              /\ Len(after) = Len(before) + Len(round)
              /\ SubSeq(after, 1, Len(before)) = before
              /\ \A i \in 1..Len(round) :
                    /\ after[Len(before) + i].role = "user"
                    /\ Contains(after[Len(before) + i].content, round[i].content)
    /\ \A i \in 2..Len(llm_log) :
          /\ llm_log[i].state.tool_calls = <<>>
          /\ llm_log[i].state.tool_results = <<>>
    /\ (pc = "done" /\ result.invoke.tag = "Ok") =>
          /\ result.invoke.state.tool_calls = <<>>
          /\ result.invoke.state.tool_results = <<>>

\* a run has ended after a round with two tool calls and a second Think
C15_Witness ==
    /\ pc = "done"
    /\ result.invoke.tag = "Ok"
    /\ Len(llm_log) = 2
    /\ Len(tool_log) = 2
    /\ Len(tool_log[1]) = 2
    /\ Len(result.invoke.state.messages) >= 4

\* the LLM's answer to the i-th Think asked for tools
RequestedTools(i) ==
    llm_log[i].response.tag = "Ok" /\ llm_log[i].response.tool_calls # <<>>

\* the nodes of a run are called in rounds of think, act, observe; no Think follows
\* a Think that asked for no tool; Observe answers Node("think") after a round
\* with tool calls and End after one without; a run that returned Ok made whole
\* rounds only, the last one without tool calls and every earlier one with
RoundsUntilNoToolCalls ==
    LET ex == executed.invoke
    IN  /\ \A i \in 1..Len(ex) : ex[i] = <<"think", "act", "observe">>[((i - 1) % 3) + 1]
        /\ \A i \in 1..(Len(llm_log) - 1) : RequestedTools(i)
        /\ ObserveReturned =>
              ret.next = (IF RequestedTools(Len(llm_log)) THEN NextNode("think") ELSE NextEnd)
        /\ (pc = "done" /\ result.invoke.tag = "Ok") =>
              /\ Len(ex) = 3 * Len(llm_log)
              /\ Len(tool_log) = Len(llm_log)
              /\ llm_log # <<>>
              /\ Last(llm_log).response.tag = "Ok"
              /\ Last(llm_log).response.tool_calls = <<>>
              /\ Len(llm_log) = Cardinality({i \in 1..Len(llm_log) : RequestedTools(i)}) + 1

\* the LLM has answered the latest Think without tool calls
AnsweredWithoutTools ==
    /\ llm_log # <<>>
    /\ Last(llm_log).response.tag = "Ok"
    /\ Last(llm_log).response.tool_calls = <<>>

FreshStart == gets = <<>> \/ (Last(gets).tag = "Ok" /\ Last(gets).tuple = NoResult)

\* C17: when the LLM answers the first Think without tool calls, a ReAct run
\* started from a fresh initial state ends after a single think -> act -> observe
\* pass in which the ToolSource receives no tool call, and the final state's
\* messages are exactly [System(system prompt), User(input), Assistant(LLM text)]
\* in that order, with empty tool_calls and tool_results.
C17_AnswerWithoutTools ==
    (/\ FreshStart
     /\ llm_log # <<>>
     /\ llm_log[1].response.tag = "Ok"
     /\ llm_log[1].response.tool_calls = <<>>) =>
        /\ Len(llm_log) = 1
        /\ \E k \in 1..3 : executed[run] = SubSeq(<<"think", "act", "observe">>, 1, k)
        /\ \A i \in 1..Len(tool_log) : tool_log[i] = <<>>
        /\ runner_result # NoResult =>
              /\ executed[run] = <<"think", "act", "observe">>
              /\ tool_log = <<<<>>>>
              /\ runner_result.tag = "Ok"
              /\ runner_result.state.messages =
                    <<Message("system", <<"prompt">>), Message("user", <<"input">>),
                      Message("assistant", llm_log[1].response.content)>>
              /\ runner_result.state.tool_calls = <<>>
              /\ runner_result.state.tool_results = <<>>

\* a streamed run on a thread without checkpoint has returned the LLM's answer
C17_Witness ==
    /\ run = "stream"
    /\ gets # <<>>
    /\ FreshStart
    /\ runner_result.tag = "Ok"
    /\ Len(runner_result.state.messages) = 3
    /\ Len(llm_log) = 1

\* build_react_initial_state has just returned Ok: state is what it built
InitialStateBuilt == run # "none" /\ pc = "loop" /\ executed[run] = <<>>

FreshState ==
    ReActState(<<Message("system", <<"prompt">>), Message("user", <<"input">>)>>,
               <<>>, <<>>, 0)

\* C18: build_react_initial_state returns, when both a checkpointer and a config
\* with a thread id are given and a checkpoint exists for that thread, the
\* checkpoint's state with User(user_message) appended to its messages,
\* tool_calls and tool_results reset to empty and turn_count kept; in every other
\* case (no checkpointer, no config, no thread id, no checkpoint stored yet) the
\* fresh state [System(prompt), User(user_message)] with empty tool_calls and
\* tool_results and turn_count 0. It is a function of the checkpoint, the config
\* and the message, and never writes to the checkpointer.
C18_InitialState ==
    InitialStateBuilt =>
        /\ puts = <<>>
        /\ IF compiled.checkpointer = "cp" /\ config = "Thread"
           THEN /\ Len(gets) = 1
                /\ gets[1].tag = "Ok"
                /\ IF saved # <<>>
                   THEN /\ gets[1].tuple = [tag |-> "Some", state |-> Last(saved)]
                        /\ state.messages
                              = Append(Last(saved).messages, Message("user", <<"input">>))
                        /\ state.tool_calls = <<>>
                        /\ state.tool_results = <<>>
                        /\ state.turn_count = Last(saved).turn_count
                   ELSE /\ gets[1].tuple = NoResult
                        /\ state = FreshState
           ELSE /\ gets = <<>>
                /\ state = FreshState

\* the state was built from a checkpoint that held a round and a turn count
C18_Witness ==
    /\ InitialStateBuilt
    /\ saved = <<StaleState>>
    /\ gets # <<>>
    /\ state.turn_count = 2
    /\ state.tool_calls = <<>>
    /\ Len(state.messages) = 2

\* C20: if Checkpointer::get_tuple fails while the initial state is being built,
\* the run fails with that checkpoint error: no fresh conversation state is
\* substituted, no graph node executes, no event is produced and nothing is
\* written to the checkpointer.
C20_LoadFailureFailsRun ==
    (gets # <<>> /\ Last(gets).tag = "Err") =>
        /\ runner_result = RunErrorCheckpoint
        /\ state = <<>>
        /\ executed[run] = <<>>
        /\ result[run] = NoResult
        /\ llm_log = <<>>
        /\ tool_log = <<>>
        /\ chan = <<>>
        /\ received = <<>>
        /\ puts = <<>>

\* a streamed run on a thread with a checkpoint has failed on get_tuple
C20_Witness ==
    /\ run = "stream"
    /\ gets = <<CheckpointError>>
    /\ saved = <<PriorState>>
    /\ runner_result = RunErrorCheckpoint

\* both calls of the runner have returned a final state
BothRunsReturned ==
    /\ earlier # NoResult
    /\ earlier.result.tag = "Ok"
    /\ runner_result.tag = "Ok"

\* the later run's final messages are base, then the new user message, then the
\* assistant's reply (after tool rounds, its last reply closes the messages)
ContinuesFrom(base) ==
    LET later == runner_result.state.messages
    IN  /\ Len(later) >= Len(base) + 2
        /\ SubSeq(later, 1, Len(base)) = base
        /\ later[Len(base) + 1] = Message("user", <<"input">>)
        /\ later[Len(base) + 2].role = "assistant"
        /\ Last(later).role = "assistant"

\* C19 as stated: for successive ReAct runs on the same thread id with the same
\* checkpointer, each run continues from the previous run's final state: the
\* later run's final messages start with the earlier run's final messages as a
\* prefix, followed by the new user message and then the new assistant reply.
C19_AsStated ==
    BothRunsReturned => ContinuesFrom(earlier.result.state.messages)

\* C19, amended: the earlier run made one put, of its final state, when it ended;
\* if that put succeeded the later run's final messages start with the earlier
\* run's final messages, followed by the new user message and the new assistant
\* reply; if it failed the later run continues in the same way from what the
\* thread held before: the older checkpoint, or else the fresh system prompt.
C19_ContinuesFromCheckpoint ==
    BothRunsReturned =>
        /\ Len(earlier.puts) = 1
        /\ earlier.puts[1].state = earlier.result.state
        /\ earlier.puts[1].ok => ContinuesFrom(earlier.result.state.messages)
        /\ ~earlier.puts[1].ok =>
              \/ ContinuesFrom(PriorState.messages)
              \/ ContinuesFrom(<<Message("system", <<"prompt">>)>>)

\* the second run has returned after a first run that used a tool and whose
\* checkpoint was stored
C19_Witness ==
    /\ BothRunsReturned
    /\ earlier.puts[1].ok
    /\ Len(earlier.result.state.messages) >= 5
    /\ Len(runner_result.state.messages) >= Len(earlier.result.state.messages) + 2

(***************************************************************************)
(* Further properties of invoke and stream on the abstract graphs.         *)
(***************************************************************************)
\* the terminal put of call r has failed
PutFailed(r) == PutsOf(r) # <<>> /\ ~PutsOf(r)[1].ok

\* a run whose put failed made that one put only, returned Ok with the state it
\* tried to store, and had by then sent every event of its node calls
FailedPutIgnored ==
    \A r \in {"invoke", "stream"} :
        PutFailed(r) =>
            /\ Len(PutsOf(r)) = 1
            /\ result[r] = RunOk(PutsOf(r)[1].state)
            /\ PutsOf(r)[1].nexec = Len(executed[r])
            /\ r = "stream" => Produced = EventsUpTo(Len(executed.stream))

\* C21: when the terminal Checkpointer::put fails the run is not failed: invoke
\* still returns Ok with the final state, and a streamed run still delivers all
\* its events and closes normally; no retry of the write is attempted.
C21_FailedPutIgnored ==
    /\ [][FailedPutIgnored']_vars
    /\ PutFailed("stream") ~>
          (/\ closed
           /\ received = EventsUpTo(Len(executed.stream))
           /\ Len(PutsOf("stream")) = 1
           /\ result.stream.tag = "Ok")

\* the puts of invoke and of the stream have both failed; invoke returned its
\* final state and the stream delivered the events of its two nodes and closed
C21_Witness ==
    /\ PutFailed("invoke")
    /\ PutFailed("stream")
    /\ saved = <<>>
    /\ result.invoke = RunOk(<<"a", "b">>)
    /\ closed
    /\ stream_mode = StreamModes
    /\ Len(received) = 4


(***************************************************************************)
(* C22 - node middleware and the compile methods.                          *)
(***************************************************************************)
\* the around_run calls made for call r, in order
AroundRunsOf(r) == SelectSeq(around_runs, LAMBDA a : a.run = r)

\* every node execution of call r went through around_run once, in order, with the
\* node's id and the state the node was about to be given
ThroughMiddleware(r) ==
    /\ Len(AroundRunsOf(r)) = Len(executed[r])
    /\ \A i \in 1..Len(executed[r]) :
          /\ AroundRunsOf(r)[i].node_id = executed[r][i]
          /\ AroundRunsOf(r)[i].state = InputState(r, i)

\* C22: when a node middleware has been attached to the builder with with_middleware,
\* every node execution of every invoke and stream run of the compiled graph goes
\* through around_run exactly once with the node id and the pre-step state, whichever
\* compile method produced the graph, compile_with_checkpointer included.
C22_AttachedMiddlewareWrapsEveryNode ==
    (middleware # "none" /\ compiled.tag = "Ok") =>
        \A r \in {"invoke", "stream"} : ThroughMiddleware(r)

\* the same for the graphs whose compile method passed a middleware on: compile() after
\* with_middleware, compile_with_middleware, compile_with_checkpointer_and_middleware
C22_CompiledMiddlewareWrapsEveryNode ==
    (compiled.tag = "Ok" /\ compiled.middleware # "none") =>
        \A r \in {"invoke", "stream"} :
            /\ ThroughMiddleware(r)
            /\ \A i \in 1..Len(AroundRunsOf(r)) :
                  AroundRunsOf(r)[i].middleware = compiled.middleware

\* both calls have run two nodes of a graph built with with_middleware and compile()
C22_Witness ==
    /\ middleware = "logging" /\ compiled.tag = "Ok" /\ compiled.checkpointer = "none"
    /\ executed.invoke = <<"a", "b">> /\ executed.stream = <<"a", "b">>
    /\ Len(around_runs) = 4

\* with_middleware then compile_with_checkpointer: two nodes ran, around_run never did
C22_Dropped ==
    /\ middleware = "logging" /\ compiled.tag = "Ok" /\ compiled.checkpointer = "cp"
    /\ compiled.middleware = "none"
    /\ executed.invoke = <<"a", "b">> /\ around_runs = <<>>


(***************************************************************************)
(* C23 - concurrent runs and the ToolSource's stored context.              *)
(***************************************************************************)
\* run t is inside its Act: its context published, not yet cleared
InAct(t) == act_tasks[t].pc = "calls"

\* C23: concurrent runs of one compiled ReAct graph share no mutable state: from the
\* moment a run's Act publishes its context until that Act clears it, the context the
\* shared ToolSource holds is that run's own messages, never replaced or cleared by
\* the other run.
C23_ContextIsOwn ==
    \A t \in Tasks : InAct(t) => call_context = SomeContext(act_tasks[t].state.messages)

\* run1 is between its two tool calls and the stored context is run2's
C23_Replaced ==
    /\ InAct("run1") /\ act_tasks["run1"].i = 2 /\ InAct("run2")
    /\ call_context = SomeContext(<<Message("user", <<"run2">>)>>)

\* run1 is between its two tool calls and run2's Act, now returned, has cleared the context
C23_Cleared ==
    /\ InAct("run1") /\ act_tasks["run1"].i = 2 /\ act_tasks["run2"].pc = "done"
    /\ call_context = NoResult

\* while only one run is inside Act the stored context is that run's
C23_AloneContextIsOwn ==
    \A t \in Tasks :
        (InAct(t) /\ \A u \in Tasks \ {t} : act_tasks[u].pc = "idle") =>
            call_context = SomeContext(act_tasks[t].state.messages)


(***************************************************************************)
(* C24 - the bounded channel: awaited sends and offered Custom events.     *)
(***************************************************************************)
\* the Values and Updates events among es, in order
StepEvents(es) == SelectSeq(es, LAMBDA e : e.type \in {"Values", "Updates"})

\* the Custom events among es, in order
CustomEvents(es) == SelectSeq(es, LAMBDA e : e.type = "Custom")

\* s is an initial part of t
IsPrefix(s, t) == Len(s) <= Len(t) /\ s = SubSeq(t, 1, Len(s))

\* the Values and Updates events sent so far are those of the node calls that have
\* returned Ok, none missing, in production order
NoStepEventMissing ==
    run = "stream" =>
        /\ Len(chan) <= ChanCap
        /\ pc \in {"loop", "ret", "next", "exit", "done"} =>
              StepEvents(Produced) = EventsUpTo(Len(state))
        /\ pc = "values" => StepEvents(Produced) = EventsUpTo(Len(state) - 1)
        /\ pc = "updates" =>
              StepEvents(Produced) = EventsUpTo(Len(state) - 1)
                  \o (IF "Values" \in stream_mode THEN <<ValuesEvent(state)>> ELSE <<>>)
        /\ Len(CustomEvents(Produced)) <= custom_offered

\* C24: on the bounded channel the engine's Values and Updates events are sent
\* awaiting capacity and never dropped: a send on a full channel waits, an event once
\* on the channel is handed to the consumer once and in order, and a consumer that
\* keeps draining receives every Values and Updates event in production order, also
\* when the run produces more events than the channel holds; only Custom events,
\* offered without waiting, may be lost on a full channel.
C24_StepEventsNeverDropped ==
    /\ [][NoStepEventMissing']_vars
    /\ [][(pc \in {"values", "updates"} /\ Len(chan) = ChanCap) => pc' = pc]_vars
    /\ [][run' = run => IsPrefix(Produced, Produced')]_vars
    /\ (run = "stream") ~>
          (closed /\ chan = <<>> /\ StepEvents(received) = EventsUpTo(Len(state)))

\* the consumer has received four step events, more than the channel holds, from a
\* run whose tool offered a Custom event that was lost on a full channel
C24_Witness ==
    /\ closed
    /\ stream_mode = StreamModes
    /\ Len(StepEvents(received)) = 4
    /\ Len(StepEvents(received)) > ChanCap
    /\ custom_offered = 1
    /\ CustomEvents(received) = <<>>


(***************************************************************************)
(* C25 - Messages events of a Think execution.                             *)
(***************************************************************************)
\* the positions of the Messages events among the events sent so far
MessagePositions == {p \in 1..Len(Produced) : Produced[p].type = "Messages"}

\* the Think calls, by their place in llm_log, whose LLM call sent a chunk
ChunkedThinks == {n \in 1..Len(llm_log) : llm_log[n].chunks = 1}

\* the Think calls whose chunk the forwarding task has put on the channel
ForwardedThinks ==
    IF pc = "chunk" THEN ChunkedThinks \ {Len(llm_log)} ELSE ChunkedThinks

\* how many events of a type were sent before position p
SentBefore(p, type) == Cardinality({q \in 1..(p - 1) : Produced[q].type = type})

\* how many Think calls had their Updates event sent before position p
ThinkUpdatesBefore(p) ==
    Cardinality({q \in 1..(p - 1) : Produced[q].type = "Updates"
                                    /\ Produced[q].node_id = "think"})

\* the j-th smallest element of a set of numbers
RECURSIVE Nth(_, _)
Nth(S, j) ==
    LET least == CHOOSE x \in S : \A y \in S : x <= y
    IN  IF j = 1 THEN least ELSE Nth(S \ {least}, j - 1)

\* C25: in a streamed run that asked for Messages, every Messages event of a Think
\* execution is tagged with node id think and is placed on the channel before the
\* Values and Updates events of that same Think execution: Think waits for its
\* forwarding task before it returns, also when the LLM call fails. So once Think is
\* no longer waiting, every chunk of every Think call is on the channel or received,
\* and the chunk of the n-th Think call comes after the Updates of n - 1 Think calls
\* only and after as many Values as Updates events (every step before it is
\* complete): before the Values and the Updates of the n-th call itself.
C25_MessagesBeforeCompletion ==
    run = "stream" =>
        /\ Cardinality(MessagePositions) = Cardinality(ForwardedThinks)
        /\ \A p \in MessagePositions : Produced[p].langgraph_node = "think"
        /\ \A j \in 1..Cardinality(MessagePositions) :
              LET p == Nth(MessagePositions, j)
                  n == Nth(ForwardedThinks, j)
              IN  /\ ThinkUpdatesBefore(p) = n - 1
                  /\ SentBefore(p, "Values") = SentBefore(p, "Updates")

\* the second Think of a streamed run sent a chunk: it was received after the first
\* round's events and before the second Think's own Values and Updates
C25_Witness ==
    /\ run = "stream"
    /\ Len(llm_log) = 2
    /\ ChunkedThinks = {2}
    /\ \E p \in 2..(Len(received) - 2) :
          /\ received[p] = MessagesEvent("think")
          /\ received[p - 1].type = "Updates" /\ received[p - 1].node_id = "observe"
          /\ received[p + 1].type = "Values"
          /\ received[p + 2].type = "Updates" /\ received[p + 2].node_id = "think"

\* the LLM call of a streamed Think sent a chunk and failed: the chunk was received
\* and the run ended without a Values or Updates event
C25_WitnessLlmFailed ==
    /\ closed
    /\ llm_log # <<>>
    /\ llm_log[1].chunks = 1
    /\ llm_log[1].response.tag = "Err"
    /\ received = <<MessagesEvent("think")>>


(***************************************************************************)
(* C26 - the conversation only grows.                                      *)
(***************************************************************************)
\* a node has returned Ok: its answer keeps the messages it was given as an initial
\* part, Think adding one message, Act none, Observe one per tool result of a round
MessagesGrow ==
    (pc = "ret" /\ ret.tag = "Ok") =>
        /\ IsPrefix(state.messages, ret.state.messages)
        /\ Len(ret.state.messages) - Len(state.messages) =
              (CASE current_id = "think" -> 1
                 [] current_id = "act" -> 0
                 [] current_id = "observe" ->
                        IF state.tool_calls = <<>> THEN 0 ELSE Len(state.tool_results))

\* C26: throughout a ReAct run state.messages only grows: after every node step
\* (Think, Act, Observe) the messages before the step are an initial part of the
\* messages after it.
C26_MessagesOnlyGrow ==
    /\ [][MessagesGrow']_vars
    /\ [][(run # "none" /\ run' = run /\ state' # state) =>
             (/\ pc = "ret"
              /\ state' = ret.state
              /\ IsPrefix(state.messages, state'.messages))]_vars

\* after think and act, Observe has returned a conversation longer than the one it was given
C26_Witness ==
    /\ pc = "ret"
    /\ current_id = "observe"
    /\ ret.tag = "Ok"
    /\ Len(state.messages) >= 2
    /\ Len(ret.state.messages) > Len(state.messages)
    /\ executed.invoke = <<"think", "act", "observe">>


(***************************************************************************)
(* C27, C28 - which error compile() answers.                               *)
(***************************************************************************)
\* the positions of the added edges that leave from_id / that enter to_id
EdgesLeaving(from_id) == {i \in 1..Len(edges) : EdgeFrom(edges[i]) = from_id}

EdgesEntering(to_id) == {i \in 1..Len(edges) : EdgeTo(edges[i]) = to_id}

\* compile() has been called on a builder whose edges all join registered nodes
CompiledValidEdges ==
    /\ compiled # NotCompiled
    /\ \A i \in 1..Len(edges) : /\ EdgeFrom(edges[i]) \in nodes \cup {START}
                                /\ EdgeTo(edges[i]) \in nodes \cup {END}

C27_WitnessNoStart ==
    /\ CompiledValidEdges
    /\ Len(edges) = 3
    /\ EdgesLeaving(START) = {}
    /\ Cardinality(EdgesEntering(END)) = 1
    /\ compiled = MissingStart

\* two of the added edges leave the same node
SharedFrom == \E i, j \in 1..Len(edges) : i # j /\ EdgeFrom(edges[i]) = EdgeFrom(edges[j])

IsInvalidChain(c) == c.tag = "Err" /\ c.err = "InvalidChain"

LastDispatched(r) ==
    /\ executed[r] # <<>>
    /\ Answer(r, Len(executed[r])).tag = "Ok"
    /\ run = r => pc \in {"loop", "exit", "done"}

\* ... and that Next was Node(id)
JumpedTo(r, id) ==
    LastDispatched(r) /\ Answer(r, Len(executed[r])).next = NextNode(id)

\* call r has jumped to an id that is not registered: the graph had compiled, every
\* node call so far answered Ok and a stream has sent all their events; the call has
\* not returned Ok and has written no checkpoint
UnregisteredJump(r) ==
    \A id \in JumpTargets \ compiled.nodes :
        JumpedTo(r, id) =>
            /\ compiled.tag = "Ok"
            /\ \A i \in 1..Len(executed[r]) : Answer(r, i).tag = "Ok"
            /\ r = "stream" => Produced = EventsUpTo(Len(executed.stream))
            /\ result[r] \in {NoResult, Panicked}
            /\ (run = r /\ pc # "loop") => result[r] = Panicked
            /\ PutsOf(r) = <<>>

\* C29: compile() does not validate dynamic jump targets: a graph whose node returns
\* Next::Node(id) for an unregistered id compiles, and the violation surfaces when
\* the engine dispatches that id: every node before the jump has run normally (a
\* stream has emitted its Values/Updates events), no node runs afterwards, the run
\* does not return Ok and no checkpoint is written.
C29_UnregisteredJumpSurfacesAtDispatch ==
    /\ [][UnregisteredJump("invoke")' /\ UnregisteredJump("stream")']_vars
    /\ [][\A r \in {"invoke", "stream"} :
            (\E id \in JumpTargets \ compiled.nodes : JumpedTo(r, id)) =>
                /\ executed'[r] = executed[r]
                /\ (run = r /\ pc = "loop") => (pc' \in {"loop", "exit", "done"})]_vars

\* a stream of a -> b -> c whose node b jumped to the unregistered zz: both nodes'
\* events were received, the task died and nothing was saved, with checkpointing on
C29_Witness ==
    /\ JumpedTo("stream", "zz")
    /\ executed.stream = <<"a", "b">>
    /\ result.stream = Panicked
    /\ closed
    /\ stream_mode = StreamModes
    /\ Len(received) = 4
    /\ CheckpointingOn
    /\ puts = <<>>

\* C30: a node that returns Next::Node(END) ends the run exactly as Next::End does:
\* no further node executes, invoke returns Ok with the current state, and the
\* terminal checkpoint is written under the same conditions as for Next::End.
C30_JumpToEndEndsRun ==
    \A r \in {"invoke", "stream"} :
        (JumpedTo(r, END) /\ Finished(r)) =>
            /\ result[r] = RunOk(executed[r])
            /\ Len(PutsOf(r)) = (IF CheckpointingOn THEN 1 ELSE 0)

\* invoke with checkpointing on: node a answered Node(END), the call panicked in the
\* node lookup and no checkpoint was written
C30_JumpToEndPanics ==
    /\ JumpedTo("invoke", END)
    /\ executed.invoke = <<"a">>
    /\ result.invoke = Panicked
    /\ CheckpointingOn
    /\ puts = <<>>

\* the same node answering Next::End: invoke returns Ok and the checkpoint is written
C30_EndReturnsOk ==
    \A r \in {"invoke", "stream"} :
        (LastDispatched(r) /\ Answer(r, Len(executed[r])).next = NextEnd) =>
            /\ result[r] = RunOk(executed[r])
            /\ Len(PutsOf(r)) = (IF CheckpointingOn THEN 1 ELSE 0)

\* ---------------------------------------------------------------------------
\* C31: the graph assembled with ObserveNode::new() runs think, act and observe
\* once each, in that order, and then returns, whether or not Think asked for
\* tools; enable_loop never changes after assembly.
OneRound == <<"think", "act", "observe">>

C31_LinearRunsOneRound ==
    /\ enable_loop = FALSE
    /\ IsPrefix(executed.invoke, OneRound)
    /\ (pc = "loop" => Len(executed.invoke) < Len(OneRound))
    /\ (result.invoke # NoResult /\ result.invoke.tag = "Ok") => executed.invoke = OneRound

\* Think asked for a tool, and the run still ended after one round
C31_Witness ==
    /\ pc = "done"
    /\ result.invoke # NoResult /\ result.invoke.tag = "Ok"
    /\ executed.invoke = OneRound
    /\ llm_log[1].response.tag # "Err" /\ llm_log[1].response.tool_calls # <<>>

\* Think asked for nothing, and act and observe still ran
C31_WitnessNoTools ==
    /\ pc = "done"
    /\ result.invoke # NoResult /\ result.invoke.tag = "Ok"
    /\ executed.invoke = OneRound
    /\ llm_log[1].response.tag # "Err" /\ llm_log[1].response.tool_calls = <<>>

\* ---------------------------------------------------------------------------
\* C32: compile() answers with the first failing check of the fixed order: unknown
\* node (first such edge, from before to), edges from START, edges into END,
\* duplicated from, duplicated to, the walk.
C32_Indices(es, Test(_)) == {i \in 1..Len(es) : Test(es[i])}

C32_Repeats(es, end, sentinel) ==
    \E i, j \in 1..Len(es) : i < j /\ es[i][end] = es[j][end] /\ es[i][end] # sentinel

\* okFrom, okTo: the ids a from and a to may be without being registered
C32_FirstFailure(ns, es, okFrom, okTo) ==
    LET unknown == C32_Indices(es, LAMBDA e : e[1] \notin ns \cup okFrom \/ e[2] \notin ns \cup okTo)
        leaving == Cardinality(C32_Indices(es, LAMBDA e : e[1] = START))
        entering == Cardinality(C32_Indices(es, LAMBDA e : e[2] = END))
    IN  IF unknown # {}
        THEN LET i == CHOOSE k \in unknown : \A l \in unknown : k <= l
             IN  NodeNotFound(IF es[i][1] \notin ns \cup okFrom THEN es[i][1] ELSE es[i][2])
        ELSE IF leaving = 0 THEN MissingStart
        ELSE IF leaving > 1 THEN InvalidChain("multiple edges from START (branch)")
        ELSE IF entering # 1 THEN MissingEnd
        ELSE IF C32_Repeats(es, 1, START) THEN InvalidChain("duplicate from (branch)")
        ELSE IF C32_Repeats(es, 2, END) THEN InvalidChain("duplicate to (merge or branch)")
        ELSE [tag |-> "Walk"]

C32_WalkAnswers ==
    {InvalidChain("cycle detected"),
     InvalidChain("chain tail does not match the single edge to END")}

C32_Reports(first) ==
    compiled # NotCompiled =>
        IF first.tag = "Walk"
        THEN compiled.tag = "Ok" \/ compiled \in C32_WalkAnswers
        ELSE compiled = first

C32_WitnessDuplicateTo ==
    /\ compiled = InvalidChain("duplicate to (merge or branch)")
    /\ Len(edges) = MaxEdges

\* END as the from of an edge is reported as an unknown node
C32_SentinelUnknown ==
    /\ nodes = {"a"}
    /\ edges = <<<<END, "a">>>>
    /\ compiled = NodeNotFound(END)

\* ---------------------------------------------------------------------------
\* C38: compile() never answers InvalidChain("cycle detected") nor the
\* tail-mismatch InvalidChain: after the earlier checks the walk cannot revisit a
\* node, and it can reach END only from the source of the single edge into END.
C38_WalkNeverFails ==
    /\ compiled # InvalidChain("cycle detected")
    /\ compiled # InvalidChain("chain tail does not match the single edge to END")


\* a full chain: the walk went through both nodes and met END at the tail
C38_Witness ==
    /\ compiled.tag = "Ok"
    /\ compiled.edge_order = <<"b", "a">>
    /\ <<"a", END>> \in Range(edges)

\* edges that close a loop pass the checks only off the walked path
C38_WitnessLoopOffPath ==
    /\ compiled.tag = "Ok"
    /\ <<"a", "a">> \in Range(edges)

\* ---------------------------------------------------------------------------
\* C33: on a graph with an empty execution order invoke returns
\* ExecutionFailed("empty graph") with no node run and no checkpoint written, and
\* stream sends no event, does not panic and drops its Sender; invoke returns an
\* error only for the empty graph or when the node it called last returned that
\* error.
EmptyGraph == compiled.tag = "Ok" /\ compiled.edge_order = <<>>

C33_InvokeErrors ==
    /\ (EmptyGraph /\ run # "none") =>
            /\ result.invoke = ExecutionFailed("empty graph")
            /\ executed.invoke = <<>>
            /\ puts = <<>>
    /\ (EmptyGraph /\ run = "stream") =>
            /\ Produced = <<>>
            /\ executed.stream = <<>>
            /\ result.stream # Panicked
            /\ pc \in {"exit", "done"}
            /\ (pc = "done" => ~tx_open)
    /\ result.invoke.tag = "Err" =>
            \/ EmptyGraph /\ result.invoke = ExecutionFailed("empty graph")
            \/ /\ ~EmptyGraph
               /\ executed.invoke # <<>>
               /\ Answer("invoke", Len(executed.invoke)) = result.invoke

\* the stream of an empty graph has ended with nothing received
C33_Witness ==
    /\ EmptyGraph
    /\ result.invoke = ExecutionFailed("empty graph")
    /\ run = "stream" /\ closed /\ received = <<>>

\* an invoke that failed because its second node did
C33_WitnessNodeFailed ==
    /\ result.invoke.tag = "Err"
    /\ Len(executed.invoke) = 2
    /\ compiled.checkpointer = "cp" /\ config = "Thread" /\ puts = <<>>

\* ---------------------------------------------------------------------------
\* C34: whenever the run streamed by run_react_graph_stream completes
\* successfully, the function returns Ok with the state of the last Values event;
\* it fails with "stream ended without final state" only when the run produced
\* no state. (Violated: the modes it asks for leave Values out.)
StreamedRunSucceeded == run = "stream" /\ result.stream # NoResult /\ result.stream.tag = "Ok"

C34_ReturnsFinalState ==
    (runner_result # NoResult /\ StreamedRunSucceeded) =>
        /\ runner_result = RunOk(state)
        /\ ValuesReceived # <<>>
        /\ Last(ValuesReceived).state = state

\* what the code does: no Values event is ever sent, and every stream that ends
\* is answered with the error, the successful runs included
C34_NeverFinalState ==
    /\ pc # "values"
    /\ \A i \in 1..Len(Produced) : Produced[i].type # "Values"
    /\ final_state = NoResult
    /\ (runner_result # NoResult => runner_result \in {StreamEndedWithoutState, RunErrorCheckpoint})

\* a run that answered without tools, ended Ok, and was reported as an error
C34_SucceededButFails ==
    /\ StreamedRunSucceeded
    /\ executed.stream = <<"think", "act", "observe">>
    /\ state.messages # <<>>
    /\ runner_result = StreamEndedWithoutState

\* ---------------------------------------------------------------------------
\* C35: LoggingMiddleware::around_run runs the node once on the state it was
\* given and hands back the node's own result, Ok or Err; so a run of a graph
\* compiled with node logging calls the nodes, ends and fails exactly as the
\* nodes' answers say, as a run without middleware does.
C35_LoggingIsTransparent ==
    (compiled.tag = "Ok" /\ run # "none") =>
        /\ (pc = "ret" => ret = behav[<<current_id, state>>])
        /\ (compiled.middleware = "logging" => ThroughMiddleware(run))
        /\ \A i \in 1..(Len(executed[run]) - 1) : Answer(run, i).tag = "Ok"
        /\ (Finished(run) /\ result[run].tag = "Err" /\ executed[run] # <<>>) =>
                result[run] = Answer(run, Len(executed[run]))
        /\ (Finished(run) /\ result[run].tag = "Ok") =>
                /\ Answer(run, Len(executed[run])).tag = "Ok"
                /\ state = Answer(run, Len(executed[run])).state

\* with_node_logging().compile(): a node's error came back through around_run
C35_Witness ==
    /\ compiled.tag = "Ok" /\ compiled.middleware = "logging"
    /\ executed.invoke = <<"a", "b">>
    /\ result.invoke = ExecutionFailed(<<"node failed", "b">>)
    /\ Len(around_runs) = 2

\* and an Ok run of both nodes
C35_WitnessOk ==
    /\ compiled.tag = "Ok" /\ compiled.middleware = "logging"
    /\ executed.invoke = <<"a", "b">>
    /\ result.invoke = RunOk(<<"a", "b">>)

\* ---------------------------------------------------------------------------
\* C36: when the consumer drops the stream while the task is running, the task
\* goes on: its sends fail and are ignored, it calls the same nodes as the run
\* would have called anyway and ends the same way, and a run that ends normally
\* writes its one terminal checkpoint with the final state.
DroppedMidRun == run = "stream" /\ closed /\ tx_open

C36_DroppedRunStillCompletes ==
    /\ [][DroppedMidRun => (chan' = <<>> /\ received' = received)]_vars
    /\ DroppedMidRun ~>
          (/\ pc = "done"
           /\ ~tx_open
           /\ executed.stream = executed.invoke
           /\ compiled.edge_order # <<>> => result.stream.tag = result.invoke.tag
           /\ result.stream.tag = "Ok" =>
                 /\ Len(PutsOf("stream")) = 1
                 /\ Last(PutsOf("stream")).state = result.invoke.state
                 /\ Last(PutsOf("stream")).nexec = Len(executed.stream))

\* dropped before the first event was taken: three nodes ran, nothing arrived,
\* the checkpoint was written
C36_Witness ==
    /\ closed /\ pc = "done" /\ run = "stream"
    /\ "Updates" \in stream_mode
    /\ received = <<>> /\ chan = <<>>
    /\ executed.stream = <<"a", "b", "c">>
    /\ result.stream.tag = "Ok"
    /\ Len(PutsOf("stream")) = 1

\* ---------------------------------------------------------------------------
\* C37 as stated: in a streamed run with checkpointer and thread id the terminal
\* put is made before the stream closes and after the last Values/Updates events
\* were sent, so a consumer that has seen a successful run's stream close finds
\* the checkpoint of the run's final state with get_tuple. (Violated: the put may
\* have failed.)
C37_AsStated ==
    (CheckpointingOn /\ run = "stream" /\ closed /\ result.stream.tag = "Ok") =>
        /\ PutsOf("stream") # <<>>
        /\ GetTuple(saved).tuple = [tag |-> "Some", state |-> state]

\* C37 (amended): the order is as stated - every event of the run is on the channel
\* when the put is made, and the put is made before the Sender is dropped, hence
\* before the consumer can see the end of the stream - and after the closure
\* get_tuple finds the checkpoint of the final state if that put succeeded.
C37_PutBeforeClose ==
    (CheckpointingOn /\ run = "stream") =>
        /\ PutsOf("stream") # <<>> =>
              /\ Produced = EventsUpTo(Len(executed.stream))
              /\ pc \in {"exit", "done"}
        /\ (~tx_open /\ result.stream.tag = "Ok") => Len(PutsOf("stream")) = 1
        /\ closed => ~tx_open
        /\ (closed /\ result.stream.tag = "Ok" /\ Last(PutsOf("stream")).ok) =>
              GetTuple(saved).tuple = [tag |-> "Some", state |-> state]

\* the put was made while the last events were still waiting in the channel
C37_Witness ==
    /\ CheckpointingOn /\ run = "stream" /\ tx_open
    /\ stream_mode = StreamModes
    /\ executed.stream = <<"a", "b">>
    /\ Len(PutsOf("stream")) = 1 /\ Last(puts).ok
    /\ Len(chan) = 2
    /\ Last(saved) = <<"a", "b">>

\* the stream of a successful run closed, and the thread has no checkpoint
C37_ClosedWithoutCheckpoint ==
    /\ CheckpointingOn /\ run = "stream" /\ closed /\ result.stream.tag = "Ok"
    /\ executed.stream = <<"a", "b">>
    /\ saved = <<>>

\* ---------------------------------------------------------------------------
\* C39: a registered node that was reached through Next::Node(id) and answers
\* Next::Continue lets the run proceed normally, to its successor in the
\* execution order or to normal termination, also when the node is registered
\* but not part of the static chain. (Violated for the nodes outside the chain.)
ContinueAfterJump(r, i) ==
    /\ i \in 2..Len(executed[r])
    /\ Answer(r, i - 1).next = NextNode(executed[r][i])
    /\ Answer(r, i).tag = "Ok"
    /\ Answer(r, i).next = NextContinue
    /\ i < Len(executed[r]) \/ Finished(r)

ProceedsNormally(r, i) ==
    LET pos == Position(compiled.edge_order, executed[r][i])
    IN  \/ /\ i < Len(executed[r])
           /\ pos \in 1..(Len(compiled.edge_order) - 1)
           /\ executed[r][i + 1] = compiled.edge_order[pos + 1]
        \/ /\ i = Len(executed[r])
           /\ result[r] = RunOk(executed[r])
           /\ Len(PutsOf(r)) = (IF CheckpointingOn THEN 1 ELSE 0)

C39_ContinueAfterJumpProceeds ==
    \A r \in {"invoke", "stream"} : \A i \in 1..Len(executed[r]) :
        ContinueAfterJump(r, i) => ProceedsNormally(r, i)

\* what holds: the same for the nodes of the execution order
C39_OnChainProceeds ==
    \A r \in {"invoke", "stream"} : \A i \in 1..Len(executed[r]) :
        (ContinueAfterJump(r, i) /\ executed[r][i] \in Range(compiled.edge_order)) =>
            ProceedsNormally(r, i)

\* chain START -> a -> END with b registered too: a jumped to b, b answered
\* Continue, and the call panicked without a checkpoint
C39_OffChainPanics ==
    /\ compiled.edge_order = <<"a">>
    /\ "b" \in compiled.nodes
    /\ executed.invoke = <<"a", "b">>
    /\ ContinueAfterJump("invoke", 2)
    /\ result.invoke = Panicked
    /\ CheckpointingOn /\ puts = <<>>

\* ---------------------------------------------------------------------------
\* C40: on a compiled graph whose nodes answer only Continue or End (or fail),
\* invoke executes an initial part of the execution order, each node at most
\* once, and then returns. (Violated by the graph START -> END, which compiles.)
NoJumpSoFar ==
    \A i \in 1..Len(executed.invoke) :
        Answer("invoke", i).tag = "Ok" => Answer("invoke", i).next \in {NextContinue, NextEnd}

PrefixThenReturns ==
    /\ IsPrefix(executed.invoke, compiled.edge_order)
    /\ (run = "invoke" /\ pc = "loop") => Len(executed.invoke) < Len(compiled.edge_order)
    /\ result.invoke # Panicked

C40_InvokeTerminates ==
    (compiled.tag = "Ok" /\ NoJumpSoFar) => PrefixThenReturns

\* what holds: the same when the execution order holds registered nodes only
C40_TerminatesOnNodes ==
    (compiled.tag = "Ok" /\ NoJumpSoFar /\ Range(compiled.edge_order) \subseteq compiled.nodes) =>
        PrefixThenReturns

\* the three nodes of a chain ran in order and invoke returned Ok
C40_WholeOrder ==
    /\ NoJumpSoFar
    /\ compiled.edge_order = <<"a", "b", "c">>
    /\ executed.invoke = compiled.edge_order
    /\ result.invoke = RunOk(<<"a", "b", "c">>)

\* edges [(START, END)]: compile() answered Ok with the order [END], and invoke
\* panicked in the node lookup before any node ran
C40_EndOnlyOrderPanics ==
    /\ edges = <<<<START, END>>>>
    /\ compiled.tag = "Ok" /\ compiled.edge_order = <<END>>
    /\ executed.invoke = <<>>
    /\ result.invoke = Panicked

=============================================================================
